---------------------------- MODULE Spec2Model ----------------------------
(***************************************************************************)
(* A model of the browser-history query tool                               *)
(* (src/chrome-history/chrome_history_query.py): parse_query, the          *)
(* snapshot-and-query part of get_chrome_history, its filter loop, and the *)
(* script's entry point.  Spec runs one invocation; SpecConcurrent runs    *)
(* two at the same time on the one file system.                            *)
(*                                                                         *)
(* Text is modelled character by character: a Python str is a sequence of  *)
(* one-character strings, so that `in`, lower(), strip(), split(),         *)
(* replace(), startswith(), urlparse and the keyword regex are computed,   *)
(* not assumed.  None and the empty string are both the empty sequence     *)
(* where the code only tests truthiness (title, filters['domain']).        *)
(*                                                                         *)
(* Time is counted in ticks, TicksPerDay to a calendar day; a tick stands  *)
(* for the log's time unit.  A date is a day number.                       *)
(***************************************************************************)
EXTENDS Integers, Sequences, FiniteSets, TLC

\* ------------------------------------------------------------------ bounds

\* The invocation date, datetime.date.today(), as a day number.
Today == 40

\* Ticks of the visit-time encoding in one calendar day.
TicksPerDay == 2

\* The most rows the visits table of the History file holds.
MaxRows == 2

\* ------------------------------------------------------------ Python str

Whitespace == {" ", "\t", "\n"}

UpperChars == <<"A","B","C","D","E","F","G","H","I","J","K","L","M","N","O","P","Q","R","S","T","U","V","W","X","Y","Z">>

LowerChars == <<"a","b","c","d","e","f","g","h","i","j","k","l","m","n","o","p","q","r","s","t","u","v","w","x","y","z">>

\* [a-z] of the keyword regex.
AZ == {LowerChars[i] : i \in 1..26}

LowerChar(c) ==
  IF \E i \in 1..26 : UpperChars[i] = c
  THEN LowerChars[CHOOSE i \in 1..26 : UpperChars[i] = c]
  ELSE c

\* str.lower()
Lower(s) == [i \in 1..Len(s) |-> LowerChar(s[i])]

\* s[a:b] with 0-based a (inclusive) and b (exclusive), as Python slices.
Slice(s, a, b) == SubSeq(s, a + 1, b)

\* s.startswith(pre, at): pre occurs in s at 0-based offset at.
OccursAt(pre, s, at) ==
  /\ at >= 0
  /\ at + Len(pre) <= Len(s)
  /\ \A j \in 1..Len(pre) : s[at + j] = pre[j]

StartsWith(s, pre) == OccursAt(pre, s, 0)

\* sub in s
Contains(sub, s) == \E at \in 0..(Len(s) - Len(sub)) : OccursAt(sub, s, at)

\* str.strip(): leading and trailing whitespace removed.
Strip(s) ==
  LET nonws == {i \in 1..Len(s) : s[i] \notin Whitespace}
  IN IF nonws = {} THEN <<>>
     ELSE LET lo == CHOOSE i \in nonws : \A j \in nonws : i <= j
              hi == CHOOSE i \in nonws : \A j \in nonws : i >= j
          IN SubSeq(s, lo, hi)

\* str.split(): the maximal runs of non-whitespace characters, in order.
RECURSIVE SplitFrom(_, _)
SplitFrom(s, i) ==
  IF i > Len(s) THEN <<>>
  ELSE IF s[i] \in Whitespace THEN SplitFrom(s, i + 1)
  ELSE LET stops == {j \in i..Len(s) : s[j] \in Whitespace}
           e == IF stops = {} THEN Len(s) + 1
                ELSE CHOOSE j \in stops : \A k \in stops : j <= k
       IN <<SubSeq(s, i, e - 1)>> \o SplitFrom(s, e)

Split(s) == SplitFrom(s, 1)

\* str.replace(old, ''): every non-overlapping occurrence of old removed,
\* scanning left to right.
RECURSIVE RemoveAllFrom(_, _, _)
RemoveAllFrom(s, old, i) ==
  IF i >= Len(s) THEN <<>>
  ELSE IF OccursAt(old, s, i) THEN RemoveAllFrom(s, old, i + Len(old))
  ELSE <<s[i + 1]>> \o RemoveAllFrom(s, old, i + 1)

RemoveAll(s, old) == RemoveAllFrom(s, old, 0)

\* The elements of a sequence.
Range(s) == {s[i] : i \in 1..Len(s)}

\* -------------------------------------------------------- urllib.parse

SchemeChars == AZ \cup {UpperChars[i] : i \in 1..26}
               \cup {"0","1","2","3","4","5","6","7","8","9","+","-","."}

\* urlparse(url).netloc: after a scheme (a letter, then letters, digits,
\* + - . up to the first ':') the text between '//' and the next '/', '?'
\* or '#'; the empty string when no '//' follows.
urlparse_netloc(url) ==
  LET colons == {i \in 1..Len(url) : url[i] = ":"}
      c == IF colons = {} THEN 0
           ELSE CHOOSE i \in colons : \A j \in colons : i <= j
      hasScheme == /\ c > 1
                   /\ url[1] \in SchemeChars \ {"0","1","2","3","4","5","6","7","8","9","+","-","."}
                   /\ \A i \in 1..(c - 1) : url[i] \in SchemeChars
      rest == IF hasScheme THEN SubSeq(url, c + 1, Len(url)) ELSE url
  IN IF ~StartsWith(rest, <<"/","/">>) THEN <<>>
     ELSE LET delims == {i \in 3..Len(rest) : rest[i] \in {"/", "?", "#"}}
              e == IF delims = {} THEN Len(rest) + 1
                   ELSE CHOOSE i \in delims : \A j \in delims : i <= j
          IN SubSeq(rest, 3, e - 1)

\* ------------------------------------------------------ constant tables

BLOCKLIST == {
  <<"f","a","c","e","b","o","o","k",".","c","o","m">>,
  <<"i","n","s","t","a","g","r","a","m",".","c","o","m">>,
  <<"t","w","i","t","t","e","r",".","c","o","m">>,
  <<"x",".","c","o","m">>,
  <<"t","i","k","t","o","k",".","c","o","m">>,
  <<"r","e","d","d","i","t",".","c","o","m">>,
  <<"y","o","u","t","u","b","e",".","c","o","m">>,
  <<"a","m","a","z","o","n",".","c","o","m">>,
  <<"e","b","a","y",".","c","o","m">>,
  <<"p","i","n","t","e","r","e","s","t",".","c","o","m">>,
  <<"l","i","n","k","e","d","i","n",".","c","o","m">>,
  <<"t","h","r","e","a","d","s",".","n","e","t">>,
  <<"m","a","s","t","o","d","o","n",".","s","o","c","i","a","l">>,
  <<"g","m","a","i","l",".","c","o","m">>,
  <<"o","u","t","l","o","o","k",".","c","o","m">>,
  <<"m","a","i","l",".","g","o","o","g","l","e",".","c","o","m">>,
  <<"f","r","e","e","f","e","e","d",".","n","e","t">>,
  <<"g","o","o","g","l","e",".","c","o","m","/","u","r","l">>
}

\* In the dict's iteration order: research, reading, tools, events.
DOMAIN_CLUSTERS == <<
  [name |-> "research", sites |-> {
     <<"g","i","t","h","u","b",".","c","o","m">>,
     <<"s","t","a","c","k","o","v","e","r","f","l","o","w",".","c","o","m">>,
     <<"a","r","x","i","v",".","o","r","g">>,
     <<"p","u","b","m","e","d",".","n","c","b","i",".","n","l","m",".","n","i","h",".","g","o","v">>,
     <<"w","i","k","i","p","e","d","i","a",".","o","r","g">>,
     <<"m","d","n",".","i","o">>,
     <<"p","y","t","h","o","n",".","o","r","g">>,
     <<"r","u","s","t","-","l","a","n","g",".","o","r","g">>,
     <<"d","o","c","s",".","r","s">>,
     <<"h","u","g","g","i","n","g","f","a","c","e",".","c","o">>}],
  [name |-> "reading", sites |-> {
     <<"m","e","d","i","u","m",".","c","o","m">>,
     <<"s","u","b","s","t","a","c","k",".","c","o","m">>,
     <<"e","c","o","n","o","m","i","s","t",".","c","o","m">>,
     <<"n","y","t","i","m","e","s",".","c","o","m">>,
     <<"s","c","i","e","n","c","e","d","a","i","l","y",".","c","o","m">>,
     <<"f","a","s","t","c","o","m","p","a","n","y",".","c","o","m">>,
     <<"l","i","v","e","s","c","i","e","n","c","e",".","c","o","m">>,
     <<"t","h","e","n","e","w","s","t","a","c","k",".","i","o">>,
     <<"t","o","w","a","r","d","s","d","a","t","a","s","c","i","e","n","c","e",".","c","o","m">>,
     <<"c","b","s","n","e","w","s",".","c","o","m">>,
     <<"d","e","s","i","g","n","b","o","o","m",".","c","o","m">>,
     <<"m","e","d","u","z","a",".","i","o">>,
     <<"e","u","r","a","c","t","i","v",".","c","o","m">>,
     <<"p","s","y","c","h","o","l","o","g","y","t","o","d","a","y",".","c","o","m">>,
     <<"h","a","c","k","a","d","a","y",".","c","o","m">>,
     <<"l","e","s","s","w","r","o","n","g",".","c","o","m">>,
     <<"y","a","h","o","o","n","e","w","s",".","c","o","m">>}],
  [name |-> "tools", sites |-> {
     <<"o","p","e","n","a","i",".","c","o","m">>,
     <<"c","l","a","u","d","e","-","c","o","d","e",".","g","l","e","b","k","a","l","i","n","i","n",".","c","o","m">>,
     <<"t","b","a","n","k",".","r","u">>,
     <<"t","i","n","k","o","f","f",".","r","u">>,
     <<"p","a","s","s","w","o","r","d","s",".","g","o","o","g","l","e",".","c","o","m">>}],
  [name |-> "events", sites |-> {
     <<"e","v","e","n","t","b","r","i","t","e",".","d","e">>,
     <<"c","o","-","b","e","r","l","i","n",".","o","r","g">>,
     <<"m","u","b","i",".","c","o","m">>}]
>>

\* In the dict's iteration order.
SPECIAL_SITES == <<
  [site_name |-> <<"r","e","d","d","i","t">>,
   site_domain |-> <<"r","e","d","d","i","t",".","c","o","m">>],
  [site_name |-> <<"h","a","c","k","e","r","n","e","w","s">>,
   site_domain |-> <<"n","e","w","s",".","y","c","o","m","b","i","n","a","t","o","r",".","c","o","m">>],
  [site_name |-> <<"t","w","i","t","t","e","r">>,
   site_domain |-> <<"t","w","i","t","t","e","r",".","c","o","m">>],
  [site_name |-> <<"m","e","d","i","u","m">>,
   site_domain |-> <<"m","e","d","i","u","m",".","c","o","m">>],
  [site_name |-> <<"y","o","u","t","u","b","e">>,
   site_domain |-> <<"y","o","u","t","u","b","e",".","c","o","m">>]
>>

\* ------------------------------------------------------------ parse_query

\* None as a start_date or end_date.
NoneDate == -1

\* today - timedelta(days=n)
DaysAgo(n) == Today - n

\* parse_dates with the week branch tested before the yesterday branch.
parse_dates_week_first(query) ==
  IF Contains(<<"l","a","s","t"," ","w","e","e","k">>, query)
     \/ Contains(<<"p","a","s","t"," ","w","e","e","k">>, query)
     \/ Contains(<<"t","h","i","s"," ","w","e","e","k">>, query)
  THEN [start_date |-> DaysAgo(7), end_date |-> Today]
  ELSE IF Contains(<<"y","e","s","t","e","r","d","a","y">>, query)
  THEN [start_date |-> DaysAgo(1), end_date |-> DaysAgo(1)]
  ELSE IF Contains(<<"l","a","s","t"," ","m","o","n","t","h">>, query)
          \/ Contains(<<"p","a","s","t"," ","m","o","n","t","h">>, query)
          \/ Contains(<<"t","h","i","s"," ","m","o","n","t","h">>, query)
  THEN [start_date |-> DaysAgo(30), end_date |-> Today]
  ELSE IF Contains(<<"l","a","s","t"," ","2"," ","w","e","e","k","s">>, query)
          \/ Contains(<<"p","a","s","t"," ","2"," ","w","e","e","k","s">>, query)
  THEN [start_date |-> DaysAgo(14), end_date |-> Today]
  ELSE [start_date |-> Today, end_date |-> Today]

\* parse_dates without the final else: with no phrase in the query the
\* dates stay None.
parse_dates_no_default(query) ==
  IF Contains(<<"y","e","s","t","e","r","d","a","y">>, query)
  THEN [start_date |-> DaysAgo(1), end_date |-> DaysAgo(1)]
  ELSE IF Contains(<<"l","a","s","t"," ","w","e","e","k">>, query)
          \/ Contains(<<"p","a","s","t"," ","w","e","e","k">>, query)
          \/ Contains(<<"t","h","i","s"," ","w","e","e","k">>, query)
  THEN [start_date |-> DaysAgo(7), end_date |-> Today]
  ELSE IF Contains(<<"l","a","s","t"," ","m","o","n","t","h">>, query)
          \/ Contains(<<"p","a","s","t"," ","m","o","n","t","h">>, query)
          \/ Contains(<<"t","h","i","s"," ","m","o","n","t","h">>, query)
  THEN [start_date |-> DaysAgo(30), end_date |-> Today]
  ELSE IF Contains(<<"l","a","s","t"," ","2"," ","w","e","e","k","s">>, query)
          \/ Contains(<<"p","a","s","t"," ","2"," ","w","e","e","k","s">>, query)
  THEN [start_date |-> DaysAgo(14), end_date |-> Today]
  ELSE IF Contains(<<"t","o","d","a","y">>, query)
          \/ Contains(<<"t","h","i","s"," ","m","o","r","n","i","n","g">>, query)
          \/ Contains(<<"t","o","n","i","g","h","t">>, query)
  THEN [start_date |-> Today, end_date |-> Today]
  ELSE [start_date |-> NoneDate, end_date |-> NoneDate]

\* The time-range chain of if/elif/else: the first branch whose phrase is
\* in the query sets both dates.
parse_dates(query) ==
  IF Contains(<<"y","e","s","t","e","r","d","a","y">>, query)
  THEN [start_date |-> DaysAgo(1), end_date |-> DaysAgo(1)]
  ELSE IF Contains(<<"l","a","s","t"," ","w","e","e","k">>, query)
          \/ Contains(<<"p","a","s","t"," ","w","e","e","k">>, query)
          \/ Contains(<<"t","h","i","s"," ","w","e","e","k">>, query)
  THEN [start_date |-> DaysAgo(7), end_date |-> Today]
  ELSE IF Contains(<<"l","a","s","t"," ","m","o","n","t","h">>, query)
          \/ Contains(<<"p","a","s","t"," ","m","o","n","t","h">>, query)
          \/ Contains(<<"t","h","i","s"," ","m","o","n","t","h">>, query)
  THEN [start_date |-> DaysAgo(30), end_date |-> Today]
  ELSE IF Contains(<<"l","a","s","t"," ","2"," ","w","e","e","k","s">>, query)
          \/ Contains(<<"p","a","s","t"," ","2"," ","w","e","e","k","s">>, query)
  THEN [start_date |-> DaysAgo(14), end_date |-> Today]
  ELSE IF Contains(<<"t","o","d","a","y">>, query)
          \/ Contains(<<"t","h","i","s"," ","m","o","r","n","i","n","g">>, query)
          \/ Contains(<<"t","o","n","i","g","h","t">>, query)
  THEN [start_date |-> Today, end_date |-> Today]
  ELSE [start_date |-> Today, end_date |-> Today]

\* The three independent cluster tests, each appending its tag.
\* parse_clusters appending a tag only when the list does not hold it yet.
parse_clusters_dedup(query) ==
  (IF Contains(<<"a","r","t","i","c","l","e">>, query) \/ Contains(<<"r","e","a","d","i","n","g">>, query)
   THEN <<"reading">> ELSE <<>>)
  \o (IF \/ Contains(<<"r","e","s","e","a","r","c","h">>, query)
         \/ Contains(<<"s","c","i","e","n","t","i","f","i","c">>, query)
         \/ Contains(<<"p","a","p","e","r">>, query)
         \/ Contains(<<"c","o","d","e">>, query)
         \/ Contains(<<"g","i","t","h","u","b">>, query)
      THEN <<"research">> ELSE <<>>)

parse_clusters(query) ==
  (IF Contains(<<"a","r","t","i","c","l","e">>, query) \/ Contains(<<"r","e","a","d","i","n","g">>, query)
   THEN <<"reading">> ELSE <<>>)
  \o (IF Contains(<<"r","e","s","e","a","r","c","h">>, query)
         \/ Contains(<<"s","c","i","e","n","t","i","f","i","c">>, query)
         \/ Contains(<<"p","a","p","e","r">>, query)
      THEN <<"research">> ELSE <<>>)
  \o (IF Contains(<<"c","o","d","e">>, query) \/ Contains(<<"g","i","t","h","u","b">>, query)
      THEN <<"research">> ELSE <<>>)

\* The loop over SPECIAL_SITES.items(): every entry whose name is in the
\* query assigns result['domain'], so the last such entry stays.
RECURSIVE parse_domain_from(_, _, _)
parse_domain_from(query, i, domain) ==
  IF i > Len(SPECIAL_SITES) THEN domain
  ELSE LET site_name == SPECIAL_SITES[i].site_name
           site_domain == SPECIAL_SITES[i].site_domain
       IN IF \/ Contains(site_name, query)
             \/ Contains(<<"o","n"," ">> \o site_name, query)
             \/ Contains(<<"a","t"," ">> \o site_name, query)
          THEN parse_domain_from(query, i + 1, site_domain)
          ELSE parse_domain_from(query, i + 1, domain)

\* parse_domain stopping at the first entry whose name is in the query.
parse_domain_first_match(query) ==
  LET matching == {i \in 1..Len(SPECIAL_SITES) : Contains(SPECIAL_SITES[i].site_name, query)}
  IN IF matching = {} THEN <<>>
     ELSE SPECIAL_SITES[CHOOSE i \in matching : \A j \in matching : i <= j].site_domain

parse_domain(query) == parse_domain_from(query, 1, <<>>)

\* The tail (?:\s+i\s+read|$|\.) of the keyword regex, tried at 0-based
\* offset e of the query.
keyword_tail(query, e) ==
  \/ \E a \in 1..(Len(query) - e) : \E b \in 1..(Len(query) - e) :
        /\ \A j \in (e + 1)..(e + a) : query[j] \in Whitespace
        /\ OccursAt(<<"i">>, query, e + a)
        /\ e + a + 1 + b <= Len(query)
        /\ \A j \in (e + a + 2)..(e + a + 1 + b) : query[j] \in Whitespace
        /\ OccursAt(<<"r","e","a","d">>, query, e + a + 1 + b)
  \/ e = Len(query)
  \/ e = Len(query) - 1 /\ query[Len(query)] = "\n"
  \/ OccursAt(<<".">>, query, e)

\* A match of about\s+([a-z\s]+?)(?:...) that starts at offset p, with k
\* whitespace characters after 'about' and the group ending at offset e.
keyword_match_at(query, p, k, e) ==
  /\ OccursAt(<<"a","b","o","u","t">>, query, p)
  /\ k >= 1
  /\ p + 5 + k < e
  /\ e <= Len(query)
  /\ \A j \in (p + 6)..(p + 5 + k) : query[j] \in Whitespace
  /\ \A j \in (p + 5 + k + 1)..e : query[j] \in AZ \cup Whitespace
  /\ keyword_tail(query, e)

\* keyword_search with a greedy group, ([a-z\s]+) for ([a-z\s]+?): the
\* longest group that lets the pattern match.
keyword_search_greedy(query) ==
  LET n == Len(query)
      Fits(p) == \E k \in 1..n : \E e \in 1..n : keyword_match_at(query, p, k, e)
      starts == {p \in 0..n : Fits(p)}
  IN IF starts = {} THEN [matched |-> FALSE, group |-> <<>>]
     ELSE LET p == CHOOSE x \in starts : \A y \in starts : x <= y
              ks == {k \in 1..n : \E e \in 1..n : keyword_match_at(query, p, k, e)}
              k == CHOOSE x \in ks : \A y \in ks : x >= y
              es == {e \in 1..n : keyword_match_at(query, p, k, e)}
              e == CHOOSE x \in es : \A y \in es : x >= y
          IN [matched |-> TRUE, group |-> Slice(query, p + 5 + k, e)]

\* re.search(...).group(1) as [matched, group]: the leftmost start, then the
\* longest \s+ (greedy), then the shortest group (lazy) that let the
\* pattern match.
keyword_search(query) ==
  LET n == Len(query)
      Fits(p) == \E k \in 1..n : \E e \in 1..n : keyword_match_at(query, p, k, e)
      starts == {p \in 0..n : Fits(p)}
  IN IF starts = {} THEN [matched |-> FALSE, group |-> <<>>]
     ELSE LET p == CHOOSE x \in starts : \A y \in starts : x <= y
              ks == {k \in 1..n : \E e \in 1..n : keyword_match_at(query, p, k, e)}
              k == CHOOSE x \in ks : \A y \in ks : x >= y
              es == {e \in 1..n : keyword_match_at(query, p, k, e)}
              e == CHOOSE x \in es : \A y \in es : x <= y
          IN [matched |-> TRUE, group |-> Slice(query, p + 5 + k, e)]

\* [kw for kw in keywords if len(kw) > 2], from word i on.
RECURSIVE long_keywords_from(_, _)
long_keywords_from(keywords, i) ==
  IF i > Len(keywords) THEN <<>>
  ELSE (IF Len(keywords[i]) > 2 THEN <<keywords[i]>> ELSE <<>>)
       \o long_keywords_from(keywords, i + 1)

\* The words after "about" that are longer than two characters.
parse_keywords(query) ==
  LET match == keyword_search(query)
  IN IF match.matched
     THEN long_keywords_from(Split(Strip(match.group)), 1)
     ELSE <<>>

parse_query(query_text) ==
  LET query == Strip(Lower(query_text))
      dates == parse_dates(query)
  IN [start_date |-> dates.start_date,
      end_date |-> dates.end_date,
      keywords |-> parse_keywords(query),
      clusters |-> parse_clusters(query),
      domain |-> parse_domain(query)]

\* ------------------------------------------------- should_include, clusters

\* urlparse(url).netloc.replace('www.', '')
netloc_without_www(url) == RemoveAll(urlparse_netloc(url), <<"w","w","w",".">>)

\* should_include testing `urlparse(url).netloc in BLOCKLIST`: the host
\* as it stands must equal an entry.
should_include_exact_host(url) ==
  /\ urlparse_netloc(url) \notin BLOCKLIST
  /\ ~(\/ StartsWith(url, <<"c","h","r","o","m","e",":","/","/">>)
       \/ StartsWith(url, <<"a","b","o","u","t",":">>)
       \/ StartsWith(url, <<"d","a","t","a",":">>))

should_include(url) ==
  LET domain == netloc_without_www(url)
  IN /\ \A blocked \in BLOCKLIST : ~(Contains(blocked, domain) \/ Contains(blocked, url))
     /\ ~(\/ StartsWith(url, <<"c","h","r","o","m","e",":","/","/">>)
          \/ StartsWith(url, <<"a","b","o","u","t",":">>)
          \/ StartsWith(url, <<"d","a","t","a",":">>))

\* The first cluster, in the table's order, one of whose sites is in the
\* domain; 'other' when there is none.
RECURSIVE get_domain_cluster_from(_, _)
get_domain_cluster_from(domain, i) ==
  IF i > Len(DOMAIN_CLUSTERS) THEN "other"
  ELSE IF \E site \in DOMAIN_CLUSTERS[i].sites : Contains(site, domain)
  THEN DOMAIN_CLUSTERS[i].name
  ELSE get_domain_cluster_from(domain, i + 1)

get_domain_cluster(url) == get_domain_cluster_from(netloc_without_www(url), 1)

\* ------------------------------------------------- get_chrome_history: times

\* int((datetime.combine(date_range['start'], time.min) - epoch)
\*     .total_seconds() * 1_000_000), in ticks since the epoch (day 0).
microseconds_start(date_range) == date_range.start * TicksPerDay

\* The same for datetime.combine(date_range['end'], time.max): the last
\* tick of the end date.  A tick is far longer than a microsecond; what the
\* float arithmetic of lines 127-128 does to the last microsecond of the day
\* is modelled apart, in microseconds (chrome_timestamp below).
microseconds_end(date_range) == date_range.end * TicksPerDay + (TicksPerDay - 1)

\* cursor.execute(query, (microseconds_start, microseconds_end)) and
\* fetchall() on a table of rows: the rows of the range, newest first; rows
\* of equal visit_time come in any order.
range_query(rows, lo, hi) ==
  LET hit == {r \in rows : r.visit_time >= lo /\ r.visit_time <= hi}
      n == Cardinality(hit)
  IN {s \in [1..n -> hit] :
        \A i \in 1..n : \A j \in 1..n :
           i < j => s[i] # s[j] /\ s[i].visit_time >= s[j].visit_time}

\* f"{url} {title or ''}".lower()
combined_text(row) == Lower(row.url \o <<" ">> \o row.title)

\* ' '.join(sys.argv[1:])
RECURSIVE join_args(_, _)
join_args(args, i) ==
  IF i > Len(args) THEN <<>>
  ELSE IF i = Len(args) THEN args[i]
  ELSE args[i] \o <<" ">> \o join_args(args, i + 1)

\* ------------------------------------------------------------ input pools

\* "https://www.reddit.com/r/rust"
U_reddit == <<"h","t","t","p","s",":","/","/","w","w","w",".","r","e","d","d","i","t",".","c","o","m","/","r","/","r","u","s","t">>

\* "https://medium.com/rust"
U_medium == <<"h","t","t","p","s",":","/","/","m","e","d","i","u","m",".","c","o","m","/","r","u","s","t">>

\* "https://github.com/x"
U_github == <<"h","t","t","p","s",":","/","/","g","i","t","h","u","b",".","c","o","m","/","x">>

\* "chrome://history"
U_chrome == <<"c","h","r","o","m","e",":","/","/","h","i","s","t","o","r","y">>

\* "about:blank"
U_about == <<"a","b","o","u","t",":","b","l","a","n","k">>

\* "data:text/html,hi"
U_data == <<"d","a","t","a",":","t","e","x","t","/","h","t","m","l",",","h","i">>

\* "https://example.org/a"
U_example == <<"h","t","t","p","s",":","/","/","e","x","a","m","p","l","e",".","o","r","g","/","a">>

\* "http://x.www.com/"
U_xwww == <<"h","t","t","p",":","/","/","x",".","w","w","w",".","c","o","m","/">>

\* "http://mdn.www.io/"
U_mdn_www == <<"h","t","t","p",":","/","/","m","d","n",".","w","w","w",".","i","o","/">>

\* "https://news.ycombinator.com/item"
U_hn == <<"h","t","t","p","s",":","/","/","n","e","w","s",".","y","c","o","m","b","i","n","a","t","o","r",".","c","o","m","/","i","t","e","m">>

\* "https://openai.com/blog"
U_openai == <<"h","t","t","p","s",":","/","/","o","p","e","n","a","i",".","c","o","m","/","b","l","o","g">>

\* "https://mubi.com/films"
U_mubi == <<"h","t","t","p","s",":","/","/","m","u","b","i",".","c","o","m","/","f","i","l","m","s">>

\* A title of 76 characters:
\* "Ownership, borrowing and lifetimes in the Rust programming language: a long "
T_76 == <<"O","w","n","e","r","s","h","i","p",","," ","b","o","r","r","o","w","i","n","g"," ","a","n","d"," ","l","i","f","e","t","i","m","e","s"," ","i","n"," ","t","h","e"," ","R","u","s","t"," ","p","r","o","g","r","a","m","m","i","n","g"," ","l","a","n","g","u","a","g","e",":"," ","a"," ","l","o","n","g"," ">>

\* A title of 75 characters between two blanks before and a blank and a
\* line break after:
\* "Awnership, borrowing and lifetimes in the Rust programming language: a lonZ"
T_padded_75 == <<" "," ">> \o <<"A","w","n","e","r","s","h","i","p",","," ","b","o","r","r","o","w","i","n","g"," ","a","n","d"," ","l","i","f","e","t","i","m","e","s"," ","i","n"," ","t","h","e"," ","R","u","s","t"," ","p","r","o","g","r","a","m","m","i","n","g"," ","l","a","n","g","u","a","g","e",":"," ","a"," ","l","o","n","Z">> \o <<" ","\n">>

\* A blank and a title of 80 characters:
\* "Ownership, borrowing and lifetimes in the Rust programming language: a long guid"
T_padded_80 == <<" ">> \o <<"O","w","n","e","r","s","h","i","p",","," ","b","o","r","r","o","w","i","n","g"," ","a","n","d"," ","l","i","f","e","t","i","m","e","s"," ","i","n"," ","t","h","e"," ","R","u","s","t"," ","p","r","o","g","r","a","m","m","i","n","g"," ","l","a","n","g","u","a","g","e",":"," ","a"," ","l","o","n","g"," ","g","u","i","d">>

\* "Rust"
T_rust == <<"R","u","s","t">>

\* Visit times: the last tick of today, the first tick of yesterday, and
\* the first tick of the day 20 days ago.
V_today == Today * TicksPerDay + (TicksPerDay - 1)

V_yesterday == (Today - 1) * TicksPerDay

V_older == (Today - 20) * TicksPerDay

Row(url, title, visit_time) == [url |-> url, title |-> title, visit_time |-> visit_time]

\* Rows of urls JOIN visits the History file may hold.  A title of <<>> is
\* a NULL or empty title.
RowPool == {
  Row(U_reddit, T_rust, V_today),
  Row(U_medium, T_rust, V_today),
  Row(U_medium, <<>>, V_yesterday),
  Row(U_github, <<>>, V_yesterday),
  Row(U_example, <<>>, V_today),
  Row(U_example, T_rust, V_yesterday),
  Row(U_example, T_rust, V_older),
  Row(U_chrome, <<>>, V_today),
  Row(U_xwww, <<>>, V_yesterday),
  Row(U_about, <<>>, V_older),
  Row(U_data, <<>>, V_today),
  Row(U_hn, T_rust, V_older),
  Row(U_openai, T_76, V_today),
  Row(U_mubi, T_padded_75, V_today),
  Row(U_github, T_padded_80, V_today),
  Row(U_mdn_www, <<>>, V_today)
}

Tables == {T \in SUBSET RowPool : Cardinality(T) <= MaxRows}

\* "today\n### Reading (1)"
Q_two_lines == <<"t","o","d","a","y","\n","#","#","#"," ","R","e","a","d","i","n","g"," ","(","1",")">>

\* Query texts given on the command line.
QueryPool == {
  \* ""
  <<>>,
  \* " "
  <<" ">>,
  \* " \t"
  <<" ","\t">>,
  \* "articles about rust I read yesterday"
  <<"a","r","t","i","c","l","e","s"," ","a","b","o","u","t"," ","r","u","s","t"," ","I"," ","r","e","a","d"," ","y","e","s","t","e","r","d","a","y">>,
  \* "threads on reddit for the last month"
  <<"t","h","r","e","a","d","s"," ","o","n"," ","r","e","d","d","i","t"," ","f","o","r"," ","t","h","e"," ","l","a","s","t"," ","m","o","n","t","h">>,
  \* "scientific articles for the last week"
  <<"s","c","i","e","n","t","i","f","i","c"," ","a","r","t","i","c","l","e","s"," ","f","o","r"," ","t","h","e"," ","l","a","s","t"," ","w","e","e","k">>,
  \* "articles I read yesterday"
  <<"a","r","t","i","c","l","e","s"," ","I"," ","r","e","a","d"," ","y","e","s","t","e","r","d","a","y">>,
  \* "last week yesterday"
  <<"l","a","s","t"," ","w","e","e","k"," ","y","e","s","t","e","r","d","a","y">>,
  \* "this month past week"
  <<"t","h","i","s"," ","m","o","n","t","h"," ","p","a","s","t"," ","w","e","e","k">>,
  \* "past 2 weeks this month"
  <<"p","a","s","t"," ","2"," ","w","e","e","k","s"," ","t","h","i","s"," ","m","o","n","t","h">>,
  \* "today last 2 weeks"
  <<"t","o","d","a","y"," ","l","a","s","t"," ","2"," ","w","e","e","k","s">>,
  \* "tonight"
  <<"t","o","n","i","g","h","t">>,
  \* "this morning on medium"
  <<"t","h","i","s"," ","m","o","r","n","i","n","g"," ","o","n"," ","m","e","d","i","u","m">>,
  \* "research code on github"
  <<"r","e","s","e","a","r","c","h"," ","c","o","d","e"," ","o","n"," ","g","i","t","h","u","b">>,
  \* "reddit and youtube today"
  <<"r","e","d","d","i","t"," ","a","n","d"," ","y","o","u","t","u","b","e"," ","t","o","d","a","y">>,
  \* "about go and rust."
  <<"a","b","o","u","t"," ","g","o"," ","a","n","d"," ","r","u","s","t",".">>,
  \* "about ai I read today"
  <<"a","b","o","u","t"," ","a","i"," ","I"," ","r","e","a","d"," ","t","o","d","a","y">>,
  \* "hackernews past month"
  <<"h","a","c","k","e","r","n","e","w","s"," ","p","a","s","t"," ","m","o","n","t","h">>,
  \* "about rust 2024"
  <<"a","b","o","u","t"," ","r","u","s","t"," ","2","0","2","4">>,
  \* "Papers THIS WEEK"
  <<"P","a","p","e","r","s"," ","T","H","I","S"," ","W","E","E","K">>,
  \* "past month"
  <<"p","a","s","t"," ","m","o","n","t","h">>,
  \* "today\n### Reading (1)"
  Q_two_lines,
  \* "articles and papers with code"
  <<"a","r","t","i","c","l","e","s"," ","a","n","d"," ","p","a","p","e","r","s"," ","w","i","t","h"," ","c","o","d","e">>,
  \* "medium or hackernews"
  <<"m","e","d","i","u","m"," ","o","r"," ","h","a","c","k","e","r","n","e","w","s">>
}

\* sys.argv[1:]: no argument, one argument, or the query in two arguments.
ArgvPool == {<<>>} \cup {<<q>> : q \in QueryPool} \cup {<<<<"l","a","s","t">>, <<"w","e","e","k">>>>}

\* Filters a caller of get_chrome_history may pass.
FilterPool ==
  [keywords : {<<>>, <<<<"r","u","s","t">>>>},
   clusters : {<<>>, <<"reading">>, <<"research", "research">>},
   domain : {<<>>, <<"r","e","d","d","i","t",".","c","o","m">>, <<"m","e","d","i","u","m",".","c","o","m">>}]

DateRangePool == {[start |-> Today, end |-> Today], [start |-> Today - 30, end |-> Today]}

\* Offsets of the local zone from UTC, in ticks.
TzOffsets == {-1, 0, 1}

\* ---------------------------------------------------------- memo tables
\* The functions of the code applied to the texts of the pools, computed
\* once: Name_of[x] is Name(x).

UrlPool == {r.url : r \in RowPool}

should_include_of == [url \in UrlPool |-> should_include(url)]

get_domain_cluster_of == [url \in UrlPool |-> get_domain_cluster(url)]

urlparse_netloc_of == [url \in UrlPool |-> urlparse_netloc(url)]

combined_text_of == [row \in RowPool |-> combined_text(row)]

parse_query_of == [args \in ArgvPool |-> parse_query(join_args(args, 1))]

\* ------------------------------------------- get_chrome_history: filter loop

\* any(kw in combined_text for kw in filters['keywords'])
any_keyword(keywords, text) == \E k \in 1..Len(keywords) : Contains(keywords[k], text)

\* passes_filters without the seen_urls test.
passes_filters_no_dedup(row, filters, seen_urls) ==
  /\ should_include_of[row.url]
  /\ (filters.domain # <<>> => Contains(filters.domain, row.url))
  /\ (filters.clusters # <<>> => get_domain_cluster_of[row.url] \in Range(filters.clusters))
  /\ (filters.keywords # <<>> => any_keyword(filters.keywords, combined_text_of[row]))

\* passes_filters with the three filters chained as if / elif: only the
\* first filter that is set is applied.
passes_filters_first_filter_only(row, filters, seen_urls) ==
  /\ should_include_of[row.url]
  /\ row.url \notin seen_urls
  /\ IF filters.domain # <<>> THEN Contains(filters.domain, row.url)
     ELSE IF filters.clusters # <<>> THEN get_domain_cluster_of[row.url] \in Range(filters.clusters)
     ELSE (filters.keywords # <<>> => any_keyword(filters.keywords, combined_text_of[row]))

\* The tests of one loop iteration, in the code's order: TRUE when none of
\* the `continue` statements is taken and the row reaches visits.append.
passes_filters(row, filters, seen_urls) ==
  /\ should_include_of[row.url]
  /\ (filters.domain # <<>> => Contains(filters.domain, row.url))
  /\ row.url \notin seen_urls
  /\ (filters.clusters # <<>> => get_domain_cluster_of[row.url] \in Range(filters.clusters))
  /\ (filters.keywords # <<>> => any_keyword(filters.keywords, combined_text_of[row]))

\* The dict appended to visits; local_time is the visit time shifted by the
\* local zone's offset tzo from UTC.
visit_record(row, tzo) ==
  [time |-> row.visit_time + tzo,
   url |-> row.url,
   title |-> IF row.title # <<>> THEN row.title ELSE row.url,
   domain |-> urlparse_netloc_of[row.url],
   cluster |-> get_domain_cluster_of[row.url]]

\* filter_loop keeping, of the rows that share a url, the last one that
\* passes the other tests (as a dict keyed by url would).
RECURSIVE filter_loop_last_wins(_, _, _, _, _, _)
filter_loop_last_wins(rows, filters, tzo, i, visits_so_far, seen_urls) ==
  IF i > Len(rows) THEN visits_so_far
  ELSE IF /\ passes_filters(rows[i], filters, {})
          /\ ~\E j \in (i + 1)..Len(rows) :
                /\ rows[j].url = rows[i].url
                /\ passes_filters(rows[j], filters, {})
  THEN filter_loop_last_wins(rows, filters, tzo, i + 1,
                             Append(visits_so_far, visit_record(rows[i], tzo)),
                             seen_urls)
  ELSE filter_loop_last_wins(rows, filters, tzo, i + 1, visits_so_far, seen_urls)

\* filter_loop with visits.insert(0, ...) for visits.append(...): each
\* record is put in front of the ones built before it.
RECURSIVE filter_loop_insert_front(_, _, _, _, _, _)
filter_loop_insert_front(rows, filters, tzo, i, visits_so_far, seen_urls) ==
  IF i > Len(rows) THEN visits_so_far
  ELSE IF passes_filters(rows[i], filters, seen_urls)
  THEN filter_loop_insert_front(rows, filters, tzo, i + 1,
                                <<visit_record(rows[i], tzo)>> \o visits_so_far,
                                seen_urls \cup {rows[i].url})
  ELSE filter_loop_insert_front(rows, filters, tzo, i + 1, visits_so_far, seen_urls)

\* for url, title, chrome_time in results: ... from row i on, with the
\* visits and seen_urls built so far.
RECURSIVE filter_loop(_, _, _, _, _, _)
filter_loop(rows, filters, tzo, i, visits_so_far, seen_urls) ==
  IF i > Len(rows) THEN visits_so_far
  ELSE IF passes_filters(rows[i], filters, seen_urls)
  THEN filter_loop(rows, filters, tzo, i + 1,
                   Append(visits_so_far, visit_record(rows[i], tzo)),
                   seen_urls \cup {rows[i].url})
  ELSE filter_loop(rows, filters, tzo, i + 1, visits_so_far, seen_urls)

\* --------------------------------------------------------- format_results

\* The characters of a cluster name.
cluster_chars ==
  [reading |-> <<"r","e","a","d","i","n","g">>,
   research |-> <<"r","e","s","e","a","r","c","h">>,
   tools |-> <<"t","o","o","l","s">>,
   events |-> <<"e","v","e","n","t","s">>,
   other |-> <<"o","t","h","e","r">>]

UpperChar(c) ==
  IF \E i \in 1..26 : LowerChars[i] = c
  THEN UpperChars[CHOOSE i \in 1..26 : LowerChars[i] = c]
  ELSE c

\* str.capitalize(): the first character in upper case, the rest in lower.
Capitalize(s) ==
  IF s = <<>> THEN <<>>
  ELSE <<UpperChar(s[1])>> \o Lower(Tail(s))

Digits == <<"0","1","2","3","4","5","6","7","8","9">>

\* str(n) of an integer n >= 0, as an f-string formats it.
RECURSIVE Str(_)
Str(n) == IF n < 10 THEN <<Digits[n + 1]>> ELSE Str(n \div 10) \o <<Digits[(n % 10) + 1]>>

\* strftime('%H:%M') of a local time in ticks: a tick is 1/TicksPerDay of a
\* day, and the first tick of a day is 00:00.
strftime_HM(time) ==
  LET minutes == (time % TicksPerDay) * (1440 \div TicksPerDay)
      HH == minutes \div 60
      MM == minutes % 60
  IN <<Digits[(HH \div 10) + 1], Digits[(HH % 10) + 1], ":",
       Digits[(MM \div 10) + 1], Digits[(MM % 10) + 1]>>

\* sep.join(lines), from line i on.
RECURSIVE Join(_, _, _)
Join(lines, sep, i) ==
  IF i > Len(lines) THEN <<>>
  ELSE IF i = Len(lines) THEN lines[i]
  ELSE lines[i] \o sep \o Join(lines, sep, i + 1)

\* shown_title cutting at 75 characters and then adding the marker.
shown_title_cut_75(title) ==
  LET stripped == Strip(title)
  IN IF Len(stripped) > 75 THEN SubSeq(stripped, 1, 75) \o <<".",".",".">> ELSE stripped

\* title = visit['title'].strip(); if len(title) > 75: title = title[:72] + "..."
shown_title(title) ==
  LET stripped == Strip(title)
  IN IF Len(stripped) > 75 THEN SubSeq(stripped, 1, 72) \o <<".",".",".">> ELSE stripped

\* cluster_order with research shown before reading.
cluster_order_research_first == <<"research", "reading", "tools", "events", "other">>

cluster_order == <<"reading", "research", "tools", "events", "other">>

\* clusters[cluster_name]: the visits of one cluster, in the order of visits.
visits_in_cluster(visits, cluster_name) ==
  SelectSeq(visits, LAMBDA visit : visit.cluster = cluster_name)

\* The two lines of each visit of a cluster, from visit i on.
RECURSIVE entry_lines(_, _)
entry_lines(cluster_visits, i) ==
  IF i > Len(cluster_visits) THEN <<>>
  ELSE <<<<"-"," ">> \o strftime_HM(cluster_visits[i].time) \o <<" ">>
           \o shown_title(cluster_visits[i].title),
         <<" ", " ">> \o cluster_visits[i].url>>
       \o entry_lines(cluster_visits, i + 1)

\* The loop over cluster_order from position k on: a heading with the count,
\* the entries and an empty line for every cluster that has visits.
RECURSIVE group_lines(_, _)
group_lines(visits, k) ==
  IF k > Len(cluster_order) THEN <<>>
  ELSE LET cluster_visits == visits_in_cluster(visits, cluster_order[k])
       IN IF cluster_visits = <<>> THEN group_lines(visits, k + 1)
          ELSE <<<<"#","#","#"," ">> \o Capitalize(cluster_chars[cluster_order[k]])
                   \o <<" ", "(">> \o Str(Len(cluster_visits)) \o <<")">>>>
               \o entry_lines(cluster_visits, 1)
               \o <<<<>>>>
               \o group_lines(visits, k + 1)

\* total: the visits of the clusters the loop went through.
RECURSIVE shown_total(_, _)
shown_total(visits, k) ==
  IF k > Len(cluster_order) THEN 0
  ELSE Len(visits_in_cluster(visits, cluster_order[k])) + shown_total(visits, k + 1)

format_results(visits, query_text) ==
  IF visits = <<>>
  THEN <<"N","o"," ","b","r","o","w","s","i","n","g"," ","h","i","s","t","o","r","y"," ","f","o","u","n","d"," ","f","o","r",":"," ">> \o query_text
  ELSE Join(<<<<"#","#"," ","C","h","r","o","m","e"," ","H","i","s","t","o","r","y",":"," ">> \o query_text,
              <<"*","F","o","u","n","d"," ">> \o Str(shown_total(visits, 1)) \o <<" ","i","t","e","m","s","*","\n">>>>
            \o <<<<>>>> \o group_lines(visits, 1),
            <<"\n">>, 1)

\* The lines the usage branch prints.
usage_lines ==
  <<<<"U","s","a","g","e",":"," ","c","h","r","o","m","e","_","h","i","s","t","o","r","y","_","q","u","e","r","y",".","p","y"," ","'","<","q","u","e","r","y",">","'">>,
    <<"E","x","a","m","p","l","e","s",":">>,
    <<" "," ","'","a","r","t","i","c","l","e","s"," ","I"," ","r","e","a","d"," ","y","e","s","t","e","r","d","a","y","'">>,
    <<" "," ","'","s","c","i","e","n","t","i","f","i","c"," ","a","r","t","i","c","l","e","s"," ","f","o","r"," ","t","h","e"," ","l","a","s","t"," ","w","e","e","k","'">>,
    <<" "," ","'","r","e","d","d","i","t"," ","t","h","r","e","a","d","s"," ","l","a","s","t"," ","m","o","n","t","h","'">>>>

\* "threads on reddit for the last month"
Q_reddit_month == <<"t","h","r","e","a","d","s"," ","o","n"," ","r","e","d","d","i","t"," ","f","o","r"," ","t","h","e"," ","l","a","s","t"," ","m","o","n","t","h">>

\* "articles about rust I read yesterday"
Q_rust_yesterday == <<"a","r","t","i","c","l","e","s"," ","a","b","o","u","t"," ","r","u","s","t"," ","I"," ","r","e","a","d"," ","y","e","s","t","e","r","d","a","y">>

\* ------------------------------------------------------------------ state

Procs == {1, 2}

VARIABLES
  argv,           \* argv[p]: sys.argv[1:] of process p
  mode,           \* mode[p]: "script" (run as __main__), "call" (get_chrome_history called directly)
  pc,             \* pc[p]: where process p is
  parsed,         \* parsed[p]: the dict parse_query returned
  date_range,     \* date_range[p]: argument of get_chrome_history
  filters,        \* filters[p]: argument of get_chrome_history
  conn,           \* conn[p]: the sqlite3 connection: "none", "open", "closed"
  results,        \* results[p]: cursor.fetchall()
  visits,         \* visits[p]: the list get_chrome_history returns
  ret,            \* ret[p]: how get_chrome_history ended: "none", "returned", "raised"
  stdout,         \* stdout[p]: the texts the script gave to print(), in order
  exit_code,      \* exit_code[p]: the script's exit status, -1 while it runs
  snapshot_read,  \* snapshot_read[p]: the state of the temporary copy when p queried it
  tz,             \* the local zone's offset from UTC, in ticks
  source,         \* ~/Library/Application Support/Google/Chrome/Default/History
  temp            \* /tmp/chrome_history_temp

\* telegram_fetch.py: one call of send_message.
VARIABLES
  send_pc,        \* where the call is: "absent", "resolve", "check", "send", "done", "raised"
  send_args,      \* the arguments chat_name, text, reply_to, file_path
  entity,         \* the entity resolve_entity returned, NoEntity for None
  resolved_name,  \* the name resolve_entity returned
  config_file,    \* ~/.telegram_dl/config.json as load_config reads it
  client_calls,   \* the send_message and send_file calls the client received, in order
  send_result     \* the dict send_message returned

\* telegram_telethon/core/auth.py: one AuthWizard and the calls made on it.
VARIABLES
  wizard,         \* the AuthWizard object: config, _client, _phone_code_hash
  wizard_calls,   \* the calls the wizard made on its TelegramClient objects, in order
  wizard_result,  \* the last call made on the wizard and how it ended
  wizard_steps,   \* the number of calls made on the wizard
  code_sent       \* a send_code call has completed and no disconnect has dropped the client since

\* fix_markdown.py: one run of the script.
VARIABLES
  md_argv,        \* sys.argv[1:]
  md_files,       \* md_files[path]: whether the file exists, and its text
  md_pc,          \* "absent", "main", "exit"
  md_exit         \* the exit status, -1 while the script runs

\* get_chrome_history, lines 121-154: the conversion of one date range in
\* microseconds and the rows the query selects with it.
VARIABLES
  ts_range,       \* date_range: [start, end], days since 1601-01-01
  ts_rows,        \* the visit_time values of the visits table
  ts_pc,          \* "absent", "convert", "query", "done"
  ts_bounds,      \* [microseconds_start, microseconds_end]
  ts_hits         \* the visit_time values the query returned

\* telegram_fetch.py: one call of search_messages.
VARIABLES
  sr_limit,       \* limit
  sr_chat_id,     \* chat_id, 0 for None
  sr_entity,      \* the chat client.get_entity(chat_id) gives
  sr_dialogs,     \* the chats client.get_dialogs(limit=20) gives
  sr_pc,          \* "absent", "start", "chat", "dialogs", "returned", "raised"
  sr_d,           \* the dialog the for loop is at
  sr_yielded,     \* the messages the current iter_messages has yielded
  sr_messages     \* messages

chrome_vars == <<argv, mode, pc, parsed, date_range, filters, conn, results, visits,
                 ret, stdout, exit_code, snapshot_read, tz, source, temp>>

\* The variables of each script, and those of the scripts other than it.
telegram_vars == <<send_pc, send_args, entity, resolved_name, config_file,
                   client_calls, send_result>>

\* The variables of the scripts other than chrome_history_query.py.
wizard_vars == <<wizard, wizard_calls, wizard_result, wizard_steps, code_sent>>

markdown_vars == <<md_argv, md_files, md_pc, md_exit>>

timestamp_vars == <<ts_range, ts_rows, ts_pc, ts_bounds, ts_hits>>

search_vars == <<sr_limit, sr_chat_id, sr_entity, sr_dialogs, sr_pc, sr_d, sr_yielded, sr_messages>>

not_chrome_vars == <<telegram_vars, wizard_vars, markdown_vars, timestamp_vars, search_vars>>

not_telegram_vars == <<chrome_vars, wizard_vars, markdown_vars, timestamp_vars, search_vars>>

not_wizard_vars == <<chrome_vars, telegram_vars, markdown_vars, timestamp_vars, search_vars>>

not_markdown_vars == <<chrome_vars, telegram_vars, wizard_vars, timestamp_vars, search_vars>>

not_timestamp_vars == <<chrome_vars, telegram_vars, wizard_vars, markdown_vars, search_vars>>

not_search_vars == <<chrome_vars, telegram_vars, wizard_vars, markdown_vars, timestamp_vars>>

vars == <<chrome_vars, telegram_vars, wizard_vars, markdown_vars, timestamp_vars, search_vars>>

\* A chat as search_messages sees it: the number of its messages that match
\* the query, and the request at which iter_messages raises (0: at none).
NoChat == [matches |-> 0, raises_at |-> 0]

\* search_messages is not called.
SearchIdle ==
  /\ sr_limit = 0
  /\ sr_chat_id = 0
  /\ sr_entity = NoChat
  /\ sr_dialogs = <<>>
  /\ sr_pc = "absent"
  /\ sr_d = 0
  /\ sr_yielded = 0
  /\ sr_messages = <<>>

\* A time in microseconds, written in days, seconds and microseconds as
\* datetime.timedelta holds it.
NoTime == [days |-> 0, seconds |-> 0, microseconds |-> 0]

\* The microsecond conversion is not under study.
TimestampsIdle ==
  /\ ts_range = [start |-> 0, end |-> 0]
  /\ ts_rows = {}
  /\ ts_pc = "absent"
  /\ ts_bounds = [microseconds_start |-> NoTime, microseconds_end |-> NoTime]
  /\ ts_hits = {}

\* The two paths the script is given.
MdPaths == {"input.md", "output.md"}

\* A file that does not exist.
NoText == [exists |-> FALSE, text |-> <<>>]

\* fix_markdown.py does not run.
MarkdownIdle ==
  /\ md_argv = <<>>
  /\ md_files = [f \in MdPaths |-> NoText]
  /\ md_pc = "absent"
  /\ md_exit = -1

\* None as self._client.
NoClient == [id |-> 0, connected |-> FALSE]

\* The wizard as __init__ leaves it: no credentials, no phone, no client, no
\* phone_code_hash (0 stands for None).
NewWizard ==
  [config |-> [api_id |-> 0, api_hash |-> <<>>, phone |-> <<>>, saved |-> FALSE],
   _client |-> NoClient,
   _phone_code_hash |-> 0]

NoCall == [call |-> "none", outcome |-> "none"]

\* No AuthWizard exists.
WizardIdle ==
  /\ wizard = NewWizard
  /\ wizard_calls = <<>>
  /\ wizard_result = NoCall
  /\ wizard_steps = 0
  /\ code_sent = FALSE

\* None as an entity.
NoEntity == [type |-> "None", id |-> 0, first_name |-> <<>>, last_name |-> <<>>, title |-> <<>>]

NoArgs == [chat_name |-> <<>>, text |-> <<>>, reply_to |-> 0, file_path |-> <<>>]

\* ~/.telegram_dl/config.json does not exist: load_config returns {}.
NoConfigFile == [exists |-> FALSE, has_allowed_send_groups |-> FALSE, allowed_send_groups |-> <<>>]

\* send_message has not returned.
NoResult == [sent |-> FALSE, error |-> "not returned", chat |-> <<>>, file |-> <<>>,
             chat_type |-> "", chat_id |-> 0]

\* No send_message call is made.
TelegramIdle ==
  /\ send_pc = "absent"
  /\ send_args = NoArgs
  /\ entity = NoEntity
  /\ resolved_name = <<>>
  /\ config_file = NoConfigFile
  /\ client_calls = <<>>
  /\ send_result = NoResult

\* result = {...} as parse_query creates it.
EmptyResult ==
  [start_date |-> NoneDate, end_date |-> NoneDate, keywords |-> <<>>,
   clusters |-> <<>>, domain |-> <<>>]

NoDateRange == [start |-> NoneDate, end |-> NoneDate]

NoFilters == [keywords |-> <<>>, clusters |-> <<>>, domain |-> <<>>]

NoFile == [state |-> "absent", writer |-> 0, valid |-> FALSE, rows |-> {}]

\* The History file: missing, present but no SQLite database with the urls
\* and visits tables, or a database holding a table of rows.
SourcePool ==
  {[exists |-> FALSE, valid |-> FALSE, rows |-> {}],
   [exists |-> TRUE, valid |-> FALSE, rows |-> {}]}
  \cup {[exists |-> TRUE, valid |-> TRUE, rows |-> T] : T \in Tables}

Job(m, a, d, f) == [mode |-> m, argv |-> a, date_range |-> d, filters |-> f]

\* What a process is started to do: the script with its arguments, or a
\* direct call of get_chrome_history(date_range, filters).
Jobs ==
  {Job("script", a, NoDateRange, NoFilters) : a \in ArgvPool}
  \cup {Job("call", <<>>, d, f) : d \in DateRangePool, f \in FilterPool}

\* The jobs of two processes that run at the same time.
ConcurrentJobs ==
  {Job("script", <<>>, NoDateRange, NoFilters),
   Job("script", <<Q_reddit_month>>, NoDateRange, NoFilters),
   Job("call", <<>>, [start |-> Today - 30, end |-> Today], NoFilters)}

ConcurrentSources ==
  {[exists |-> FALSE, valid |-> FALSE, rows |-> {}],
   [exists |-> TRUE, valid |-> FALSE, rows |-> {}],
   [exists |-> TRUE, valid |-> TRUE,
    rows |-> {Row(U_reddit, T_rust, V_today), Row(U_example, <<>>, V_today)}]}

Absent == [mode |-> "none", argv |-> <<>>, date_range |-> NoDateRange, filters |-> NoFilters]

\* The state in which each process p is about to start job[p].
Start(job) ==
  /\ argv = [p \in Procs |-> job[p].argv]
  /\ mode = [p \in Procs |-> job[p].mode]
  /\ pc = [p \in Procs |-> CASE job[p].mode = "script" -> "main"
                             [] job[p].mode = "call" -> "call"
                             [] OTHER -> "absent"]
  /\ parsed = [p \in Procs |-> EmptyResult]
  /\ date_range = [p \in Procs |-> job[p].date_range]
  /\ filters = [p \in Procs |-> job[p].filters]
  /\ conn = [p \in Procs |-> "none"]
  /\ results = [p \in Procs |-> <<>>]
  /\ visits = [p \in Procs |-> <<>>]
  /\ ret = [p \in Procs |-> "none"]
  /\ stdout = [p \in Procs |-> <<>>]
  /\ exit_code = [p \in Procs |-> -1]
  /\ snapshot_read = [p \in Procs |-> NoFile]

\* chrome_history_query.py does not run.
ChromeIdle ==
  /\ Start([p \in Procs |-> Absent])
  /\ tz = 0
  /\ source = [exists |-> FALSE, valid |-> FALSE, rows |-> {}]
  /\ temp = NoFile

\* One invocation: process 1 runs, process 2 does not exist.
Init ==
  /\ \E j \in Jobs : Start([p \in Procs |-> IF p = 1 THEN j ELSE Absent])
  /\ tz \in TzOffsets
  /\ source \in SourcePool
  /\ temp = NoFile
  /\ TelegramIdle
  /\ WizardIdle
  /\ MarkdownIdle
  /\ TimestampsIdle
  /\ SearchIdle

\* Two invocations at the same time.
InitConcurrent ==
  /\ \E j \in [Procs -> ConcurrentJobs] : Start(j)
  /\ tz = 0
  /\ source \in ConcurrentSources
  /\ temp = NoFile
  /\ TelegramIdle
  /\ WizardIdle
  /\ MarkdownIdle
  /\ TimestampsIdle
  /\ SearchIdle

Upd(f, p, v) == [f EXCEPT ![p] = v]

\* --------------------------------------------------------------- __main__

\* MainUsage ending with sys.exit(0).
MainUsage_exit_zero(p) ==
  /\ pc[p] = "main"
  /\ Len(argv[p]) < 1
  /\ stdout' = Upd(stdout, p, usage_lines)
  /\ exit_code' = Upd(exit_code, p, 0)
  /\ pc' = Upd(pc, p, "exit")
  /\ UNCHANGED <<argv, mode, parsed, date_range, filters, conn, results, visits,
                 ret, snapshot_read, tz, source, temp>>
  /\ UNCHANGED not_chrome_vars

\* if len(sys.argv) < 2: print usage; sys.exit(1)
MainUsage(p) ==
  /\ pc[p] = "main"
  /\ Len(argv[p]) < 1
  /\ stdout' = Upd(stdout, p, usage_lines)
  /\ exit_code' = Upd(exit_code, p, 1)
  /\ pc' = Upd(pc, p, "exit")
  /\ UNCHANGED <<argv, mode, parsed, date_range, filters, conn, results, visits,
                 ret, snapshot_read, tz, source, temp>>
  /\ UNCHANGED not_chrome_vars

\* query_text = ' '.join(sys.argv[1:]); parsed = parse_query(query_text);
\* date_range = {...}; filters = {...}
MainParse(p) ==
  /\ pc[p] = "main"
  /\ Len(argv[p]) >= 1
  /\ LET result == parse_query_of[argv[p]]
     IN /\ parsed' = Upd(parsed, p, result)
        /\ date_range' = Upd(date_range, p,
                             [start |-> result.start_date, end |-> result.end_date])
        /\ filters' = Upd(filters, p,
                          [keywords |-> result.keywords, clusters |-> result.clusters,
                           domain |-> result.domain])
  /\ pc' = Upd(pc, p, "call")
  /\ UNCHANGED <<argv, mode, conn, results, visits, ret, stdout, exit_code,
                 snapshot_read, tz, source, temp>>
  /\ UNCHANGED not_chrome_vars

\* result = format_results(visits, query_text); print(result); the script
\* ends with status 0.
MainReport(p) ==
  /\ pc[p] = "returned"
  /\ mode[p] = "script"
  /\ stdout' = Upd(stdout, p, <<format_results(visits[p], join_args(argv[p], 1))>>)
  /\ exit_code' = Upd(exit_code, p, 0)
  /\ pc' = Upd(pc, p, "exit")
  /\ UNCHANGED <<argv, mode, parsed, date_range, filters, conn, results, visits,
                 ret, snapshot_read, tz, source, temp>>
  /\ UNCHANGED not_chrome_vars

\* An exception get_chrome_history raised is caught nowhere: the
\* interpreter prints the traceback to stderr and exits with status 1.
MainCrash(p) ==
  /\ pc[p] = "raised"
  /\ mode[p] = "script"
  /\ exit_code' = Upd(exit_code, p, 1)
  /\ pc' = Upd(pc, p, "exit")
  /\ UNCHANGED <<argv, mode, parsed, date_range, filters, conn, results, visits,
                 ret, stdout, snapshot_read, tz, source, temp>>
  /\ UNCHANGED not_chrome_vars

\* ---------------------------------------------------- get_chrome_history

\* `return []` before the query.
ReturnEmpty(p) ==
  /\ visits' = Upd(visits, p, <<>>)
  /\ ret' = Upd(ret, p, "returned")
  /\ pc' = Upd(pc, p, "returned")

\* An exception leaves get_chrome_history: nothing after the raising
\* statement runs.
Raise(p) ==
  /\ ret' = Upd(ret, p, "raised")
  /\ pc' = Upd(pc, p, "raised")

\* if not chrome_history_path.exists(): return []
CheckExists(p) ==
  /\ pc[p] = "call"
  /\ IF source.exists
     THEN /\ pc' = Upd(pc, p, "copy")
          /\ UNCHANGED <<visits, ret>>
     ELSE ReturnEmpty(p)
  /\ UNCHANGED <<argv, mode, parsed, date_range, filters, conn, results, stdout,
                 exit_code, snapshot_read, tz, source, temp>>
  /\ UNCHANGED not_chrome_vars

\* shutil.copy2 opens the source and opens the temporary file for writing,
\* which truncates it; when either open fails the except clause returns [].
CopyOpen(p) ==
  /\ pc[p] = "copy"
  /\ \/ /\ temp' = [state |-> "partial", writer |-> p, valid |-> FALSE, rows |-> {}]
        /\ pc' = Upd(pc, p, "copying")
        /\ UNCHANGED <<visits, ret>>
     \/ /\ ReturnEmpty(p)
        /\ UNCHANGED temp
  /\ UNCHANGED <<argv, mode, parsed, date_range, filters, conn, results, stdout,
                 exit_code, snapshot_read, tz, source>>
  /\ UNCHANGED not_chrome_vars

\* shutil.copy2 writes the source's bytes and metadata.  The copy is this
\* process's snapshot when no other process opened the file meanwhile, and
\* a mix of two writers' bytes otherwise.  When writing fails the except
\* clause returns [] and the file stays as it is.
CopyWrite(p) ==
  /\ pc[p] = "copying"
  /\ \/ /\ temp' = [state |-> IF temp.writer = p /\ temp.state = "partial"
                               THEN "complete" ELSE "mixed",
                     writer |-> temp.writer,
                     valid |-> source.valid,
                     rows |-> source.rows]
        /\ pc' = Upd(pc, p, "connect")
        /\ UNCHANGED <<visits, ret>>
     \/ /\ ReturnEmpty(p)
        /\ UNCHANGED temp
  /\ UNCHANGED <<argv, mode, parsed, date_range, filters, conn, results, stdout,
                 exit_code, snapshot_read, tz, source>>
  /\ UNCHANGED not_chrome_vars

\* conn = sqlite3.connect(temp_copy); cursor = conn.cursor().  connect
\* raises sqlite3.OperationalError when the file cannot be opened.
Connect(p) ==
  /\ pc[p] = "connect"
  /\ \/ /\ conn' = Upd(conn, p, "open")
        /\ pc' = Upd(pc, p, "query")
        /\ UNCHANGED ret
     \/ /\ Raise(p)
        /\ UNCHANGED conn
  /\ UNCHANGED <<argv, mode, parsed, date_range, filters, results, visits, stdout,
                 exit_code, snapshot_read, tz, source, temp>>
  /\ UNCHANGED not_chrome_vars

\* The temporary file can be queried: a whole copy, or a mix of two whole
\* copies, of a database that has the urls and visits tables.
Queryable(file) == file.state \in {"complete", "mixed"} /\ file.valid

\* cursor.execute(query, (microseconds_start, microseconds_end));
\* results = cursor.fetchall().  Both raise sqlite3.Error: always when the
\* file is no database with these tables, and on any I/O error.
Query(p) ==
  /\ pc[p] = "query"
  /\ snapshot_read' = Upd(snapshot_read, p, temp)
  /\ \/ /\ Queryable(temp)
        /\ \E rows \in range_query(temp.rows, microseconds_start(date_range[p]),
                                   microseconds_end(date_range[p])) :
              results' = Upd(results, p, rows)
        /\ pc' = Upd(pc, p, "close")
        /\ UNCHANGED ret
     \/ /\ Raise(p)
        /\ UNCHANGED results
  /\ UNCHANGED <<argv, mode, parsed, date_range, filters, conn, visits, stdout,
                 exit_code, tz, source, temp>>
  /\ UNCHANGED not_chrome_vars

\* conn.close()
Close(p) ==
  /\ pc[p] = "close"
  /\ conn' = Upd(conn, p, "closed")
  /\ pc' = Upd(pc, p, "filter")
  /\ UNCHANGED <<argv, mode, parsed, date_range, filters, results, visits, ret,
                 stdout, exit_code, snapshot_read, tz, source, temp>>
  /\ UNCHANGED not_chrome_vars

\* The filter loop and `return visits`.
Filter(p) ==
  /\ pc[p] = "filter"
  /\ visits' = Upd(visits, p, filter_loop(results[p], filters[p], tz, 1, <<>>, {}))
  /\ ret' = Upd(ret, p, "returned")
  /\ pc' = Upd(pc, p, "returned")
  /\ UNCHANGED <<argv, mode, parsed, date_range, filters, conn, results, stdout,
                 exit_code, snapshot_read, tz, source, temp>>
  /\ UNCHANGED not_chrome_vars

Next ==
  \E p \in Procs :
    \/ MainUsage(p)
    \/ MainParse(p)
    \/ MainReport(p)
    \/ MainCrash(p)
    \/ CheckExists(p)
    \/ CopyOpen(p)
    \/ CopyWrite(p)
    \/ Connect(p)
    \/ Query(p)
    \/ Close(p)
    \/ Filter(p)

Spec == Init /\ [][Next]_vars

SpecConcurrent == InitConcurrent /\ [][Next]_vars

\* ------------------------------------------- telegram_fetch.py: send_message

DigitChars == {"0","1","2","3","4","5","6","7","8","9"}

\* The letters and digits: the characters str.isalnum accepts.
AlnumChars == DigitChars \cup Range(LowerChars) \cup Range(UpperChars)

\* str.isalnum() and str.isdigit(): FALSE for the empty string.
isalnum(s) == s # <<>> /\ \A i \in 1..Len(s) : s[i] \in AlnumChars

isdigit(s) == s # <<>> /\ \A i \in 1..Len(s) : s[i] \in DigitChars

\* str.lstrip(c)
RECURSIVE lstrip(_, _)
lstrip(s, c) == IF s # <<>> /\ s[1] = c THEN lstrip(Tail(s), c) ELSE s

\* The value of a string of digits.
RECURSIVE digits_value(_)
digits_value(s) ==
  IF s = <<>> THEN 0
  ELSE 10 * digits_value(SubSeq(s, 1, Len(s) - 1))
       + (CHOOSE d \in 0..9 : Digits[d + 1] = s[Len(s)])

\* int(s) for s made of '-' characters and then digits: the set holding the
\* number, empty when int raises ValueError (more than one '-').
int_of(s) ==
  IF isdigit(s) THEN {digits_value(s)}
  ELSE IF s # <<>> /\ s[1] = "-" /\ isdigit(Tail(s)) THEN {0 - digits_value(Tail(s))}
  ELSE {}

\* The entities of the account: a user, a basic group, a channel and a
\* group the user was removed from.
E_ann == [type |-> "User", id |-> 7, first_name |-> <<"A","n","n">>, last_name |-> <<"L","e","e">>, title |-> <<>>]

E_team == [type |-> "Chat", id |-> 42, first_name |-> <<>>, last_name |-> <<>>, title |-> <<"T","e","a","m">>]

E_news == [type |-> "Channel", id |-> 43, first_name |-> <<>>, last_name |-> <<>>, title |-> <<"N","e","w","s">>]

E_old == [type |-> "ChatForbidden", id |-> 44, first_name |-> <<>>, last_name |-> <<>>, title |-> <<"O","l","d">>]

\* client.get_dialogs(): the dialogs with their names, in order.
Dialogs == <<
  [name |-> <<"A","n","n"," ","L","e","e">>, entity |-> E_ann],
  [name |-> <<"T","e","a","m">>, entity |-> E_team],
  [name |-> <<"N","e","w","s">>, entity |-> E_news],
  [name |-> <<"O","l","d">>, entity |-> E_old]
>>

\* What client.get_entity finds for a username or a number; it raises for
\* every other key, and can raise for these (a network failure).
get_entity_username(username) ==
  IF Lower(username) = <<"@","n","e","w","s">> THEN {E_news}
  ELSE IF Lower(username) = <<"@","a","n","n">> THEN {E_ann}
  ELSE {}

get_entity_id(n) ==
  IF n = 7 THEN {E_ann}
  ELSE IF n = -42 THEN {E_team}
  ELSE {}

\* get_chat_type taking a Channel for no known type.
get_chat_type_channel_unknown(e) ==
  IF e.type = "User" THEN "private"
  ELSE IF e.type = "Chat" THEN "group"
  ELSE "unknown"

get_chat_type(e) ==
  IF e.type = "User" THEN "private"
  ELSE IF e.type = "Chat" THEN "group"
  ELSE IF e.type = "Channel" THEN "channel"
  ELSE "unknown"

\* a or b on strings
Or(a, b) == IF a # <<>> THEN a ELSE b

Resolved(e, name) == [entity |-> e, resolved_name |-> name, raised |-> FALSE]

\* resolve_entity, first try: a name that starts with '@', or that is
\* alphanumeric once '-' and '_' are removed and is no number, is looked up
\* as a username.  An exception leaves entity None.
resolve_username(chat_name) ==
  IF \/ StartsWith(chat_name, <<"@">>)
     \/ /\ isalnum(RemoveAll(RemoveAll(chat_name, <<"-">>), <<"_">>))
        /\ ~isdigit(lstrip(chat_name, "-"))
  THEN LET username == IF StartsWith(chat_name, <<"@">>) THEN chat_name
                       ELSE <<"@">> \o chat_name
       IN {Resolved(e, Or(Or(e.first_name, e.title), chat_name)
                       \o (IF e.type = "User" /\ e.last_name # <<>>
                           THEN <<" ">> \o e.last_name ELSE <<>>)) :
             e \in get_entity_username(username)}
          \cup {Resolved(NoEntity, chat_name)}
  ELSE {Resolved(NoEntity, chat_name)}

\* resolve_entity, second try: a number is looked up as a chat id.
resolve_id(r, chat_name) ==
  IF r.entity = NoEntity /\ isdigit(lstrip(chat_name, "-"))
  THEN {Resolved(e, Or(Or(e.first_name, e.title), chat_name)) :
          e \in UNION {get_entity_id(n) : n \in int_of(chat_name)}}
       \cup {r}
  ELSE {r}

\* resolve_entity, third try: the first dialog whose name holds chat_name,
\* whatever the case.  get_dialogs can raise, and nothing catches it.
resolve_dialog(r, chat_name) ==
  IF r.entity = NoEntity
  THEN LET matching == {i \in 1..Len(Dialogs) : Contains(Lower(chat_name), Lower(Dialogs[i].name))}
           d == Dialogs[CHOOSE i \in matching : \A j \in matching : i <= j]
       IN {IF matching = {} THEN r ELSE Resolved(d.entity, d.name)}
          \cup {[entity |-> NoEntity, resolved_name |-> chat_name, raised |-> TRUE]}
  ELSE {r}

\* The results resolve_entity(client, chat_name) can have.
resolve_entity(chat_name) ==
  UNION {UNION {resolve_dialog(r2, chat_name) : r2 \in resolve_id(r1, chat_name)} :
           r1 \in resolve_username(chat_name)}

\* The files that exist.
ExistingFiles == {<<"a",".","p","n","g">>}

ChatNamePool == {<<"@","n","e","w","s">>,
                 <<"n","e","w","s">>,
                 <<"T","e","a","m">>,
                 <<"t","e","a">>,
                 <<"-","4","2">>,
                 <<"7">>,
                 <<"-","-","4","2">>,
                 <<"4","2">>,
                 <<"n","o","b","o","d","y">>,
                 <<>>,
                 <<"a","n","n"," ","l","e","e">>,
                 <<"o","l","d">>,
                 <<"@","A","n","n">>,
                 <<"n","e","w","_","s">>,
                 <<"-","7">>}

ConfigFilePool ==
  {NoConfigFile,
   [exists |-> TRUE, has_allowed_send_groups |-> FALSE, allowed_send_groups |-> <<>>]}
  \cup {[exists |-> TRUE, has_allowed_send_groups |-> TRUE, allowed_send_groups |-> a] :
          a \in {<<>>, <<<<"T","e","a","m">>>>, <<<<"t","e","a","m">>>>, <<<<"4","3">>>>, <<<<"N","e","w","s">>, <<"4","2">>>>}}

SendArgsPool ==
  [chat_name : ChatNamePool, text : {<<>>, <<"h","i">>}, reply_to : {0},
   file_path : {<<>>, <<"a",".","p","n","g">>, <<"b",".","p","n","g">>}]

InitTelegram ==
  /\ send_pc = "resolve"
  /\ send_args \in SendArgsPool
  /\ entity = NoEntity
  /\ resolved_name = <<>>
  /\ config_file \in ConfigFilePool
  /\ client_calls = <<>>
  /\ send_result = NoResult
  /\ ChromeIdle
  /\ WizardIdle
  /\ MarkdownIdle
  /\ TimestampsIdle
  /\ SearchIdle

SendReturn(result) ==
  /\ send_result' = result
  /\ send_pc' = "done"

\* entity, resolved_name = await resolve_entity(client, chat_name);
\* if entity is None: return {"sent": False, "error": ... not found}
SendResolve ==
  /\ send_pc = "resolve"
  /\ \E r \in resolve_entity(send_args.chat_name) :
        /\ entity' = r.entity
        /\ resolved_name' = r.resolved_name
        /\ IF r.raised THEN send_pc' = "raised" /\ UNCHANGED send_result
           ELSE IF r.entity = NoEntity
           THEN SendReturn([NoResult EXCEPT !.error = "not found"])
           ELSE send_pc' = "check" /\ UNCHANGED send_result
  /\ UNCHANGED <<send_args, config_file, client_calls>>
  /\ UNCHANGED not_telegram_vars

\* config.get("allowed_send_groups", []) of load_config().
allowed_groups_of(file) ==
  IF file.exists /\ file.has_allowed_send_groups THEN file.allowed_send_groups ELSE <<>>

\* The safety check: a group or channel must be in allowed_send_groups, by
\* resolved name or by str(entity_id).
SendCheck ==
  /\ send_pc = "check"
  /\ LET chat_type == get_chat_type(entity)
         allowed_groups == allowed_groups_of(config_file)
         entity_id == entity.id
     IN IF /\ chat_type \in {"group", "channel"}
           /\ resolved_name \notin Range(allowed_groups)
           /\ Str(entity_id) \notin Range(allowed_groups)
        THEN SendReturn([NoResult EXCEPT !.error = "whitelist", !.chat_type = chat_type,
                                         !.chat = resolved_name, !.chat_id = entity_id])
        ELSE send_pc' = "send" /\ UNCHANGED send_result
  /\ UNCHANGED <<send_args, entity, resolved_name, config_file, client_calls>>
  /\ UNCHANGED not_telegram_vars

\* The try block: send_file when file_path is given and the file exists,
\* send_message otherwise; an exception of the client becomes
\* {"sent": False, "error": str(e)}.
SendDeliver ==
  /\ send_pc = "send"
  /\ IF send_args.file_path # <<>>
     THEN IF send_args.file_path \notin ExistingFiles
          THEN /\ SendReturn([NoResult EXCEPT !.error = "file not found"])
               /\ UNCHANGED client_calls
          ELSE /\ client_calls' = Append(client_calls,
                     [method |-> "send_file", entity |-> entity, file |-> send_args.file_path,
                      text |-> send_args.text, reply_to |-> send_args.reply_to])
               /\ \/ SendReturn([NoResult EXCEPT !.sent = TRUE, !.error = "none",
                                                 !.chat = resolved_name,
                                                 !.file = send_args.file_path])
                  \/ SendReturn([NoResult EXCEPT !.error = "exception"])
     ELSE /\ client_calls' = Append(client_calls,
                [method |-> "send_message", entity |-> entity, file |-> <<>>,
                 text |-> send_args.text, reply_to |-> send_args.reply_to])
          /\ \/ SendReturn([NoResult EXCEPT !.sent = TRUE, !.error = "none",
                                            !.chat = resolved_name])
             \/ SendReturn([NoResult EXCEPT !.error = "exception"])
  /\ UNCHANGED <<send_args, entity, resolved_name, config_file>>
  /\ UNCHANGED not_telegram_vars

NextTelegram ==
  \/ SendResolve
  \/ SendCheck
  \/ SendDeliver

SpecTelegram == InitTelegram /\ [][NextTelegram]_vars

\* ------------------------------------------------------ auth.py: AuthWizard

\* The wizard makes at most MaxCalls calls.
MaxCalls == 5

\* Config.is_configured(): both credentials are set.
is_configured(config) == config.api_id # 0 /\ config.api_hash # <<>>

\* One more call was made on the wizard, ending as outcome says: "returned",
\* "AuthError", or "error" for any other exception.
Ended(call, outcome) ==
  /\ wizard_result' = [call |-> call, outcome |-> outcome]
  /\ wizard_steps' = wizard_steps + 1

\* A call of the wizard on a client.
ClientCall(method, client) == [method |-> method, client |-> client.id]

\* The TelegramClient objects created so far.
ClientsCreated == Cardinality({wizard_calls[i].client : i \in 1..Len(wizard_calls)})

\* set_credentials(api_id, api_hash) with a valid id and hash.
SetCredentials ==
  /\ wizard_steps < MaxCalls
  /\ wizard' = [wizard EXCEPT !.config.api_id = 12345,
                              !.config.api_hash = <<"0","1","2","3","4","5","6","7","8","9","a","b","c","d","e","f","0","1","2","3","4","5","6","7","8","9","a","b","c","d","e","f">>]
  /\ Ended("set_credentials", "returned")
  /\ UNCHANGED <<wizard_calls, code_sent>>
  /\ UNCHANGED not_wizard_vars

\* set_phone(phone)
SetPhone ==
  /\ wizard_steps < MaxCalls
  /\ wizard' = [wizard EXCEPT !.config.phone = <<"+","4","9","1","5","1","1","2","3","4","5","6","7","8">>]
  /\ Ended("set_phone", "returned")
  /\ UNCHANGED <<wizard_calls, code_sent>>
  /\ UNCHANGED not_wizard_vars

\* send_code(): AuthError without credentials; otherwise a new client is
\* stored in self._client, then connect() and send_code_request() are
\* awaited, and only when both return is self._phone_code_hash assigned.
\* The hash a request returns is modelled as the request's number.
SendCode ==
  /\ wizard_steps < MaxCalls
  /\ IF ~is_configured(wizard.config)
     THEN /\ Ended("send_code", "AuthError")
          /\ UNCHANGED <<wizard, wizard_calls, code_sent>>
     ELSE LET client == [id |-> ClientsCreated + 1, connected |-> FALSE]
              connected == [client EXCEPT !.connected = TRUE]
          IN \/ /\ wizard' = [wizard EXCEPT !._client = client]
                /\ wizard_calls' = Append(wizard_calls, ClientCall("connect", client))
                /\ Ended("send_code", "error")
                /\ UNCHANGED code_sent
             \/ /\ wizard' = [wizard EXCEPT !._client = connected]
                /\ wizard_calls' = wizard_calls \o <<ClientCall("connect", client),
                                                     ClientCall("send_code_request", client)>>
                /\ Ended("send_code", "error")
                /\ UNCHANGED code_sent
             \/ /\ wizard' = [wizard EXCEPT !._client = connected,
                                            !._phone_code_hash = wizard_steps + 1]
                /\ wizard_calls' = wizard_calls \o <<ClientCall("connect", client),
                                                     ClientCall("send_code_request", client)>>
                /\ Ended("send_code", "returned")
                /\ code_sent' = TRUE
  /\ UNCHANGED not_wizard_vars

\* SignIn with self.config.save() moved in front of the try block: the
\* configuration is saved before the client is asked to sign in.
SignIn_save_first ==
  /\ wizard_steps < MaxCalls
  /\ IF wizard._client = NoClient \/ wizard._phone_code_hash = 0
     THEN /\ Ended("sign_in", "AuthError")
          /\ UNCHANGED <<wizard, wizard_calls>>
     ELSE /\ wizard_calls' = Append(wizard_calls, ClientCall("sign_in", wizard._client))
          /\ wizard' = [wizard EXCEPT !.config.saved = TRUE]
          /\ \/ Ended("sign_in", "returned")
             \/ Ended("sign_in", "AuthError")
             \/ Ended("sign_in", "error")
  /\ UNCHANGED code_sent
  /\ UNCHANGED not_wizard_vars

\* sign_in(code): AuthError when there is no client or no phone_code_hash;
\* otherwise the client's sign_in is called with the stored hash.  It
\* returns the user (and the configuration is saved), or raises
\* SessionPasswordNeededError, which becomes AuthError, or raises another
\* exception.
SignIn ==
  /\ wizard_steps < MaxCalls
  /\ IF wizard._client = NoClient \/ wizard._phone_code_hash = 0
     THEN /\ Ended("sign_in", "AuthError")
          /\ UNCHANGED <<wizard, wizard_calls>>
     ELSE /\ wizard_calls' = Append(wizard_calls, ClientCall("sign_in", wizard._client))
          /\ \/ /\ wizard' = [wizard EXCEPT !.config.saved = TRUE]
                /\ Ended("sign_in", "returned")
             \/ /\ Ended("sign_in", "AuthError")
                /\ UNCHANGED wizard
             \/ /\ Ended("sign_in", "error")
                /\ UNCHANGED wizard
  /\ UNCHANGED code_sent
  /\ UNCHANGED not_wizard_vars

\* sign_in_2fa(password): AuthError when there is no client; otherwise the
\* client's sign_in is called with the password.
SignIn2fa ==
  /\ wizard_steps < MaxCalls
  /\ IF wizard._client = NoClient
     THEN /\ Ended("sign_in_2fa", "AuthError")
          /\ UNCHANGED <<wizard, wizard_calls>>
     ELSE /\ wizard_calls' = Append(wizard_calls, ClientCall("sign_in_password", wizard._client))
          /\ \/ /\ wizard' = [wizard EXCEPT !.config.saved = TRUE]
                /\ Ended("sign_in_2fa", "returned")
             \/ /\ Ended("sign_in_2fa", "error")
                /\ UNCHANGED wizard
  /\ UNCHANGED code_sent
  /\ UNCHANGED not_wizard_vars

\* disconnect(): with a client, the client's disconnect is awaited and
\* self._client becomes None (it stays when disconnect raises);
\* self._phone_code_hash is left as it is.
Disconnect ==
  /\ wizard_steps < MaxCalls
  /\ IF wizard._client = NoClient
     THEN /\ Ended("disconnect", "returned")
          /\ UNCHANGED <<wizard, wizard_calls>>
     ELSE /\ wizard_calls' = Append(wizard_calls, ClientCall("disconnect", wizard._client))
          /\ \/ /\ wizard' = [wizard EXCEPT !._client = NoClient]
                /\ Ended("disconnect", "returned")
             \/ /\ Ended("disconnect", "error")
                /\ UNCHANGED wizard
  /\ code_sent' = (code_sent /\ wizard'._client # NoClient)
  /\ UNCHANGED not_wizard_vars

InitWizard ==
  /\ wizard = NewWizard
  /\ wizard_calls = <<>>
  /\ wizard_result = NoCall
  /\ wizard_steps = 0
  /\ code_sent = FALSE
  /\ ChromeIdle
  /\ TelegramIdle
  /\ MarkdownIdle
  /\ TimestampsIdle
  /\ SearchIdle

NextWizard ==
  \/ SetCredentials
  \/ SetPhone
  \/ SendCode
  \/ SignIn
  \/ SignIn2fa
  \/ Disconnect

SpecWizard == InitWizard /\ [][NextWizard]_vars

\* -------------------------------------------------------- fix_markdown.py

\* A text has at most MaxLines lines.
MaxLines == 3

\* re.match(r'^(\s*)([-*+]|\d+\.)\s', line): the length of group 1 when the
\* line matches, -1 when it does not.
list_indent(line) ==
  LET indent == CHOOSE n \in 0..Len(line) :
                  /\ \A i \in 1..n : line[i] \in Whitespace
                  /\ (n < Len(line) => line[n + 1] \notin Whitespace)
      rest == SubSeq(line, indent + 1, Len(line))
      digits == CHOOSE n \in 0..Len(rest) :
                  /\ \A i \in 1..n : rest[i] \in DigitChars
                  /\ (n < Len(rest) => rest[n + 1] \notin DigitChars)
  IN IF \/ /\ Len(rest) >= 2
           /\ rest[1] \in {"-", "*", "+"}
           /\ rest[2] \in Whitespace
        \/ /\ digits >= 1
           /\ Len(rest) >= digits + 2
           /\ rest[digits + 1] = "."
           /\ rest[digits + 2] \in Whitespace
     THEN indent
     ELSE -1

\* content.split('\n')
RECURSIVE split_lines(_)
split_lines(content) ==
  LET breaks == {i \in 1..Len(content) : content[i] = "\n"}
      first == CHOOSE i \in breaks : \A j \in breaks : i <= j
  IN IF breaks = {} THEN <<content>>
     ELSE <<SubSeq(content, 1, first - 1)>>
          \o split_lines(SubSeq(content, first + 1, Len(content)))

\* needs_blank without the two prev_line.strip() tests: a blank line before
\* the list item does not count.
needs_blank_after_blank_too(lines, i) ==
  LET prev_line == IF i > 1 THEN lines[i - 1] ELSE <<>>
  IN /\ list_indent(lines[i]) >= 0
     /\ list_indent(prev_line) < 0
     /\ list_indent(lines[i]) = 0

\* The tests under which the loop appends '' before line i (lines are
\* numbered from 1 here, from 0 in the code).
needs_blank(lines, i) ==
  LET prev_line == IF i > 1 THEN lines[i - 1] ELSE <<>>
  IN /\ list_indent(lines[i]) >= 0
     /\ Strip(prev_line) # <<>>
     /\ list_indent(prev_line) < 0
     /\ list_indent(lines[i]) = 0
     /\ ~(i > 1 /\ Strip(lines[i - 1]) = <<>>)

\* The loop over the lines from line i on: fixed_lines.
RECURSIVE fixed_lines(_, _)
fixed_lines(lines, i) ==
  IF i > Len(lines) THEN <<>>
  ELSE (IF needs_blank(lines, i) THEN <<<<>>>> ELSE <<>>)
       \o <<lines[i]>> \o fixed_lines(lines, i + 1)

fix_markdown_lists(content) ==
  Join(fixed_lines(split_lines(content), 1), <<"\n">>, 1)

\* Lines a markdown text may hold.
MdLinePool == {
  <<>>,
  <<" ">>,
  <<"t","e","x","t">>,
  <<"t","e","x","t",":">>,
  <<"-"," ","a">>,
  <<"*"," ","b">>,
  <<"+"," ","c">>,
  <<"1","."," ","d">>,
  <<"1","2","."," ","e">>,
  <<" "," ","-"," ","f">>,
  <<"\t","2","."," ","g">>,
  <<"-","h">>,
  <<"1",".","i">>,
  <<"-">>,
  <<"-"," ">>
}

\* The texts of at most MaxLines lines.
RECURSIVE MdTexts(_)
MdTexts(n) ==
  IF n = 1 THEN MdLinePool
  ELSE MdTexts(n - 1)
       \cup {text \o <<"\n">> \o line : text \in MdTexts(n - 1), line \in MdLinePool}

InitMarkdown ==
  /\ md_argv \in {<<>>, <<"input.md">>, <<"input.md", "output.md">>}
  /\ \E input \in {NoText} \cup {[exists |-> TRUE, text |-> text] : text \in MdTexts(MaxLines)} :
        md_files = [f \in MdPaths |-> IF f = "input.md" THEN input ELSE NoText]
  /\ md_pc = "main"
  /\ md_exit = -1
  /\ ChromeIdle
  /\ TelegramIdle
  /\ WizardIdle
  /\ TimestampsIdle
  /\ SearchIdle

\* if len(sys.argv) < 2: usage on stderr, sys.exit(1)
MdUsage ==
  /\ md_pc = "main"
  /\ Len(md_argv) < 1
  /\ md_exit' = 1
  /\ md_pc' = "exit"
  /\ UNCHANGED <<md_argv, md_files>>
  /\ UNCHANGED not_markdown_vars

\* if not input_file.exists(): error on stderr, sys.exit(1)
MdNotFound ==
  /\ md_pc = "main"
  /\ Len(md_argv) >= 1
  /\ ~md_files[md_argv[1]].exists
  /\ md_exit' = 1
  /\ md_pc' = "exit"
  /\ UNCHANGED <<md_argv, md_files>>
  /\ UNCHANGED not_markdown_vars

\* content = input_file.read_text(); fixed_content = fix_markdown_lists(content);
\* output_file.write_text(fixed_content), the output file being the input
\* file when no second argument is given.
MdFix ==
  /\ md_pc = "main"
  /\ Len(md_argv) >= 1
  /\ md_files[md_argv[1]].exists
  /\ LET input_file == md_argv[1]
         output_file == IF Len(md_argv) > 1 THEN md_argv[2] ELSE input_file
         content == md_files[input_file].text
     IN md_files' = [md_files EXCEPT ![output_file] =
                       [exists |-> TRUE, text |-> fix_markdown_lists(content)]]
  /\ md_exit' = 0
  /\ md_pc' = "exit"
  /\ UNCHANGED md_argv
  /\ UNCHANGED not_markdown_vars

NextMarkdown ==
  \/ MdUsage
  \/ MdNotFound
  \/ MdFix

SpecMarkdown == InitMarkdown /\ [][NextMarkdown]_vars

\* ----------------------------- get_chrome_history: the times in microseconds

\* datetime.date.today() in days since 1601-01-01 (2 November 2026).
TodayOrdinal == 155533

SecondsPerDay == 86400

MicrosPerSecond == 1000000

\* datetime.time.min and datetime.time.max
time_min == [seconds |-> 0, microseconds |-> 0]

time_max == [seconds |-> SecondsPerDay - 1, microseconds |-> MicrosPerSecond - 1]

\* datetime.datetime.combine(date, time) - epoch, a timedelta.
since_epoch(date, time) ==
  [days |-> date, seconds |-> time.seconds, microseconds |-> time.microseconds]

\* The days for which the float64 picture below is right: the whole seconds
\* since the epoch lie in [2^33, 2^34), where doubles are 2^-19 apart, and the
\* microseconds since the epoch lie in [2^53, 2^54), where doubles are 2
\* apart.  2^53 microseconds are 104249 days and a fraction, 2^34 seconds
\* are 198841 days and a fraction (the years 1886 to 2145).
FloatDays == 104250..198840

\* base + n/den rounded to the nearest integer, a tie going to the even one:
\* the rounding of every float64 operation.
round_half_even(base, n, den) ==
  LET q == n \div den
      r == n % den
  IN IF 2 * r < den THEN base + q
     ELSE IF 2 * r > den THEN base + q + 1
     ELSE base + q + ((base + q) % 2)

\* timedelta.total_seconds(): the microseconds of the timedelta divided by
\* 10**6, rounded to a double.  The whole seconds are kept; the fraction is
\* rounded to a multiple of 2^-19 and given here in units of 2^-19
\* (10^6 = 2^6 * 15625 and 2^19 = 2^6 * 8192).
total_seconds(td) ==
  [days |-> td.days,
   seconds |-> td.seconds,
   fraction |-> round_half_even((td.microseconds \div 15625) * 8192,
                                (td.microseconds % 15625) * 8192, 15625)]

\* int(x * 1_000_000) for the double x: the product rounded to a double, an
\* even whole number of microseconds, which int() leaves as it is.  The
\* microseconds beyond the whole seconds are fraction * 15625 / 8192.
chrome_timestamp(x) ==
  LET half == round_half_even((x.fraction \div 16384) * 15625,
                              (x.fraction % 16384) * 15625, 16384)
      micros == 2 * half
      seconds == x.seconds + micros \div MicrosPerSecond
  IN [days |-> x.days + seconds \div SecondsPerDay,
      seconds |-> seconds % SecondsPerDay,
      microseconds |-> micros % MicrosPerSecond]

\* a <= b for two times in days, seconds and microseconds.
time_le(a, b) ==
  \/ a.days < b.days
  \/ a.days = b.days /\ a.seconds < b.seconds
  \/ a.days = b.days /\ a.seconds = b.seconds /\ a.microseconds <= b.microseconds

\* The dates a range starts or ends on: a week ago, yesterday, today.
TsDates == {TodayOrdinal - 7, TodayOrdinal - 1, TodayOrdinal}

\* The visit times of the table: the first and the last microseconds of the
\* dates, and the microseconds next to them.
TsVisitTimes ==
  {since_epoch(date, time) :
     date \in TsDates \cup {TodayOrdinal - 8, TodayOrdinal + 1},
     time \in {time_min, time_max,
               [seconds |-> 0, microseconds |-> 1],
               [seconds |-> SecondsPerDay - 1, microseconds |-> MicrosPerSecond - 2]}}

InitTimestamps ==
  /\ \E start \in TsDates, end \in TsDates :
       /\ start <= end
       /\ ts_range = [start |-> start, end |-> end]
  /\ ts_rows \in {rows \in SUBSET TsVisitTimes : Cardinality(rows) <= MaxRows}
  /\ ts_pc = "convert"
  /\ ts_bounds = [microseconds_start |-> NoTime, microseconds_end |-> NoTime]
  /\ ts_hits = {}
  /\ ChromeIdle
  /\ TelegramIdle
  /\ WizardIdle
  /\ MarkdownIdle
  /\ SearchIdle

\* Lines 124-128: day_start, day_end, microseconds_start, microseconds_end.
TsConvert ==
  /\ ts_pc = "convert"
  /\ ts_range.start \in FloatDays
  /\ ts_range.end \in FloatDays
  /\ ts_bounds' =
       [microseconds_start |->
          chrome_timestamp(total_seconds(since_epoch(ts_range.start, time_min))),
        microseconds_end |->
          chrome_timestamp(total_seconds(since_epoch(ts_range.end, time_max)))]
  /\ ts_pc' = "query"
  /\ UNCHANGED <<ts_range, ts_rows, ts_hits>>
  /\ UNCHANGED not_timestamp_vars

\* Lines 146-154: WHERE visits.visit_time >= ? AND visits.visit_time <= ?
TsQuery ==
  /\ ts_pc = "query"
  /\ ts_hits' = {visit_time \in ts_rows :
                   /\ time_le(ts_bounds.microseconds_start, visit_time)
                   /\ time_le(visit_time, ts_bounds.microseconds_end)}
  /\ ts_pc' = "done"
  /\ UNCHANGED <<ts_range, ts_rows, ts_bounds>>
  /\ UNCHANGED not_timestamp_vars

NextTimestamps ==
  \/ TsConvert
  \/ TsQuery

SpecTimestamps == InitTimestamps /\ [][NextTimestamps]_vars

\* ------------------------------------- telegram_fetch.py: search_messages

\* client.get_dialogs(limit=20) gives at most MaxDialogs chats.
MaxDialogs == 3

\* A chat holds at most MaxMatches messages that match the query.
MaxMatches == 2

\* The chats: 0..MaxMatches matching messages; iter_messages never raises, or
\* raises at its second request.
ChatPool == [matches : 0..MaxMatches, raises_at : {0, 2}]

\* Values of limit: negative, zero, below 20, and 20 and 40, for which
\* limit // 20 + 1 is 2 and 3.
LimitPool == {-21, -1, 0, 1, 2, 20, 40}

\* The sequences of at most n chats.
RECURSIVE ChatSeqs(_)
ChatSeqs(n) ==
  IF n = 0 THEN {<<>>}
  ELSE ChatSeqs(n - 1)
       \cup {Append(chats, chat) : chats \in {c \in ChatSeqs(n - 1) : Len(c) = n - 1},
                                   chat \in ChatPool}

InitSearch ==
  /\ sr_limit \in LimitPool
  /\ \/ /\ sr_chat_id = 42
        /\ sr_entity \in ChatPool
        /\ sr_dialogs = <<>>
     \/ /\ sr_chat_id = 0
        /\ sr_entity = NoChat
        /\ sr_dialogs \in ChatSeqs(MaxDialogs)
  /\ sr_pc = "start"
  /\ sr_d = 0
  /\ sr_yielded = 0
  /\ sr_messages = <<>>
  /\ ChromeIdle
  /\ TelegramIdle
  /\ WizardIdle
  /\ MarkdownIdle
  /\ TimestampsIdle

\* What an `async for msg in client.iter_messages(chat, search=query,
\* limit=n)` does when asked for its next message after it has yielded
\* `yielded`: telethon yields at most max(n, 0) messages, newest first.
iter_messages_next(chat, n, yielded) ==
  IF yielded >= n THEN "stop"
  ELSE IF chat.raises_at = yielded + 1 THEN "raise"
  ELSE IF yielded < chat.matches THEN "yield"
  ELSE "stop"

\* format_message(msg, name, chat_type) of message n of chat d.
format_message(d, n) == [chat |-> d, message |-> n]

\* messages = []; if chat_id: entity = await client.get_entity(chat_id) ...
\* else: dialogs = await client.get_dialogs(limit=20)
SearchStart ==
  /\ sr_pc = "start"
  /\ IF sr_chat_id # 0
     THEN sr_pc' = "chat" /\ sr_d' = 0
     ELSE sr_pc' = "dialogs" /\ sr_d' = 1
  /\ UNCHANGED <<sr_limit, sr_chat_id, sr_entity, sr_dialogs, sr_yielded, sr_messages>>
  /\ UNCHANGED not_search_vars

\* One turn of `async for msg in client.iter_messages(entity, search=query,
\* limit=limit)`: a message is appended, or the loop ends and messages is
\* returned, or the exception of the request leaves search_messages.
SearchChat ==
  /\ sr_pc = "chat"
  /\ LET next == iter_messages_next(sr_entity, sr_limit, sr_yielded)
     IN IF next = "yield"
        THEN /\ sr_messages' = Append(sr_messages, format_message(0, sr_yielded + 1))
             /\ sr_yielded' = sr_yielded + 1
             /\ UNCHANGED sr_pc
        ELSE /\ sr_pc' = IF next = "stop" THEN "returned" ELSE "raised"
             /\ UNCHANGED <<sr_messages, sr_yielded>>
  /\ UNCHANGED <<sr_limit, sr_chat_id, sr_entity, sr_dialogs, sr_d>>
  /\ UNCHANGED not_search_vars

\* One turn of the inner loop over dialog sr_d, with limit // 20 + 1: the
\* message is appended, and `if len(messages) >= limit: break` leaves the
\* inner loop and then, by the same test, the outer one.
SearchDialogMessage ==
  /\ sr_pc = "dialogs"
  /\ sr_d <= Len(sr_dialogs)
  /\ iter_messages_next(sr_dialogs[sr_d], sr_limit \div 20 + 1, sr_yielded) = "yield"
  /\ sr_messages' = Append(sr_messages, format_message(sr_d, sr_yielded + 1))
  /\ sr_yielded' = sr_yielded + 1
  /\ sr_pc' = IF Len(sr_messages') >= sr_limit THEN "returned" ELSE "dialogs"
  /\ UNCHANGED <<sr_limit, sr_chat_id, sr_entity, sr_dialogs, sr_d>>
  /\ UNCHANGED not_search_vars

\* The inner loop ends: the iterator has no more message, and the test after
\* the try block returns messages or goes to the next dialog; or the iterator
\* raises, and `except Exception: continue` goes to the next dialog.
SearchDialogEnd ==
  /\ sr_pc = "dialogs"
  /\ sr_d <= Len(sr_dialogs)
  /\ LET next == iter_messages_next(sr_dialogs[sr_d], sr_limit \div 20 + 1, sr_yielded)
     IN /\ next # "yield"
        /\ IF next = "stop" /\ Len(sr_messages) >= sr_limit
           THEN sr_pc' = "returned" /\ UNCHANGED <<sr_d, sr_yielded>>
           ELSE sr_d' = sr_d + 1 /\ sr_yielded' = 0 /\ UNCHANGED sr_pc
  /\ UNCHANGED <<sr_limit, sr_chat_id, sr_entity, sr_dialogs, sr_messages>>
  /\ UNCHANGED not_search_vars

\* The for loop has gone through every dialog: return messages.
SearchReturn ==
  /\ sr_pc = "dialogs"
  /\ sr_d > Len(sr_dialogs)
  /\ sr_pc' = "returned"
  /\ UNCHANGED <<sr_limit, sr_chat_id, sr_entity, sr_dialogs, sr_d, sr_yielded, sr_messages>>
  /\ UNCHANGED not_search_vars

NextSearch ==
  \/ SearchStart
  \/ SearchChat
  \/ SearchDialogMessage
  \/ SearchDialogEnd
  \/ SearchReturn

SpecSearch == InitSearch /\ [][NextSearch]_vars

\* ------------------------------------------------------------- properties

\* Process p ran the range query and the filter loop to its end.
Filtered(p) == ret[p] = "returned" /\ conn[p] = "closed"

\* Process p, the script, has called parse_query.
Parsed(p) == mode[p] = "script" /\ Len(argv[p]) >= 1 /\ pc[p] # "main"

\* The query text of process p.
QueryText(p) == join_args(argv[p], 1)

\* The indices of the rows of results[p] that have the url u.
Occurrences(p, u) == {i \in 1..Len(results[p]) : results[p][i].url = u}

Min(S) == CHOOSE x \in S : \A y \in S : x <= y

\* C1: the list returned by the filter loop holds no two records with the
\* same url.
C1_NoDuplicateUrl ==
  \A p \in Procs : \A i \in 1..Len(visits[p]) : \A j \in 1..Len(visits[p]) :
     i # j => visits[p][i].url # visits[p][j].url

\* Two rows of the results share a url that passes every other test, and
\* the returned list holds a record of it.
C1_Witness ==
  \E p \in Procs :
    /\ Filtered(p)
    /\ \E i \in 1..Len(results[p]) : \E j \in 1..Len(results[p]) :
         /\ i < j
         /\ results[p][i].url = results[p][j].url
         /\ passes_filters(results[p][i], filters[p], {})
         /\ passes_filters(results[p][j], filters[p], {})
         /\ \E k \in 1..Len(visits[p]) : visits[p][k].url = results[p][i].url

PassingOccurrences(p, u) ==
  {i \in Occurrences(p, u) : passes_filters(results[p][i], filters[p], {})}

C3_ExcludedUrls ==
  {u \in UrlPool :
     \/ urlparse_netloc(u) = <<"w","w","w",".","r","e","d","d","i","t",".","c","o","m">>
     \/ \E b \in BLOCKLIST : Contains(b, netloc_without_www(u)) \/ Contains(b, u)
     \/ StartsWith(u, <<"c","h","r","o","m","e",":","/","/">>)
     \/ StartsWith(u, <<"a","b","o","u","t",":">>)
     \/ StartsWith(u, <<"d","a","t","a",":">>)}

C4_SiteQueryReturnsVisits ==
  \A p \in Procs :
    (/\ Parsed(p)
     /\ Filtered(p)
     /\ parsed[p].domain # <<>>
     /\ parsed[p].keywords = <<>>
     /\ parsed[p].clusters = <<>>)
    => \A i \in 1..Len(results[p]) :
         (/\ Contains(parsed[p].domain, results[p][i].url)
          /\ i = Min(Occurrences(p, results[p][i].url)))
         => \E k \in 1..Len(visits[p]) : visits[p][k].url = results[p][i].url

\* C5 as stated: get_chrome_history raises no exception to its caller,
\* whichever of the existence test, the copy, the connection and the range
\* query fails.
C5_NeverRaises ==
  \A p \in Procs : ret[p] # "raised"

\* C6 as stated: when get_chrome_history has ended, by return or by
\* exception, the temporary copy is gone and the connection is not open.
C6_CleanedUpOnExit ==
  \A p \in Procs :
    ret[p] # "none" => temp.state = "absent" /\ conn[p] # "open"

\* C7 as stated: the range query of a process reads the whole snapshot
\* that this process copied.
C7_ReadsOwnSnapshot ==
  \A p \in Procs :
    snapshot_read[p].state # "absent"
      => snapshot_read[p].writer = p /\ snapshot_read[p].state = "complete"

\* The trigger groups of C8 in priority order, each with the days its range
\* reaches back from today at its start and at its end.
C8_Groups == <<
  [phrases |-> {<<"y","e","s","t","e","r","d","a","y">>}, from |-> 1, to |-> 1],
  [phrases |-> {<<"l","a","s","t"," ","w","e","e","k">>,
                <<"p","a","s","t"," ","w","e","e","k">>,
                <<"t","h","i","s"," ","w","e","e","k">>}, from |-> 7, to |-> 0],
  [phrases |-> {<<"l","a","s","t"," ","m","o","n","t","h">>,
                <<"p","a","s","t"," ","m","o","n","t","h">>,
                <<"t","h","i","s"," ","m","o","n","t","h">>}, from |-> 30, to |-> 0],
  [phrases |-> {<<"l","a","s","t"," ","2"," ","w","e","e","k","s">>,
                <<"p","a","s","t"," ","2"," ","w","e","e","k","s">>}, from |-> 14, to |-> 0],
  [phrases |-> {<<"t","o","d","a","y">>,
                <<"t","h","i","s"," ","m","o","r","n","i","n","g">>,
                <<"t","o","n","i","g","h","t">>}, from |-> 0, to |-> 0]
>>

\* The groups that have a phrase in the text, letter case ignored.
C8_Present(text) ==
  {g \in 1..Len(C8_Groups) : \E ph \in C8_Groups[g].phrases : Contains(ph, Lower(text))}

\* The range C8 gives for a text: that of the first group present, and
\* [today, today] when none is.
C8_ExpectedRange(text) ==
  IF C8_Present(text) = {} THEN [start |-> Today, end |-> Today]
  ELSE LET g == C8_Groups[Min(C8_Present(text))]
       IN [start |-> Today - g.from, end |-> Today - g.to]

C8_ExpectedRange_of == [args \in ArgvPool |-> C8_ExpectedRange(join_args(args, 1))]

C8_Present_of == [args \in ArgvPool |-> C8_Present(join_args(args, 1))]

\* C8: the dates parse_query returns are those of the first trigger group
\* present in the text, in the order yesterday, week, month, 2 weeks, today;
\* [today, today] when none is present; and start_date <= end_date.
C8_FirstTriggerGroupWins ==
  \A p \in Procs :
    Parsed(p) =>
      /\ parsed[p].start_date = C8_ExpectedRange_of[argv[p]].start
      /\ parsed[p].end_date = C8_ExpectedRange_of[argv[p]].end
      /\ parsed[p].start_date <= parsed[p].end_date

\* parse_query has returned for a text that holds phrases of two groups,
\* the later of them the week group or the yesterday group.
C8_Witness ==
  \E p \in Procs :
    /\ Parsed(p)
    /\ Cardinality(C8_Present_of[argv[p]]) >= 2
    /\ parsed[p].start_date \in {Today - 1, Today - 7}

\* C9: for an empty or whitespace-only text parse_query returns
\* start_date = end_date = today, no keywords, no clusters and no domain.
C9_BlankQuery ==
  \A p \in Procs :
    (Parsed(p) /\ \A i \in 1..Len(QueryText(p)) : QueryText(p)[i] \in Whitespace)
    => parsed[p] = [start_date |-> Today, end_date |-> Today, keywords |-> <<>>,
                    clusters |-> <<>>, domain |-> <<>>]

\* parse_query has returned for a text of whitespace only.
C9_Witness ==
  \E p \in Procs :
    /\ Parsed(p)
    /\ Len(QueryText(p)) >= 2
    /\ \A i \in 1..Len(QueryText(p)) : QueryText(p)[i] \in Whitespace

\* C10: parse_query("articles about rust I read yesterday") returns the
\* range [yesterday, yesterday], the clusters ["reading"], the keywords
\* ["rust"] and no domain.
C10_RustYesterday ==
  \A p \in Procs :
    (Parsed(p) /\ QueryText(p) = Q_rust_yesterday)
    => parsed[p] = [start_date |-> Today - 1, end_date |-> Today - 1,
                    keywords |-> <<<<"r","u","s","t">>>>,
                    clusters |-> <<"reading">>, domain |-> <<>>]

\* parse_query has returned for "articles about rust I read yesterday".
C10_Witness ==
  \E p \in Procs : Parsed(p) /\ argv[p] = <<Q_rust_yesterday>>

\* ------------------------------------------------- properties of the report

\* Process p, the script, printed format_results' text and ended.
Reported(p) == mode[p] = "script" /\ pc[p] = "exit" /\ exit_code[p] = 0

\* The text format_results returned to process p.
ReportText(p) == stdout[p][1]

\* The lines of a text: the pieces between its line breaks.
RECURSIVE LinesOf(_)
LinesOf(text) ==
  LET breaks == {i \in 1..Len(text) : text[i] = "\n"}
  IN IF breaks = {} THEN <<text>>
     ELSE <<SubSeq(text, 1, Min(breaks) - 1)>>
          \o LinesOf(SubSeq(text, Min(breaks) + 1, Len(text)))

\* A line that is a group heading, "### Name (n)", or the count summary,
\* "*Found n items*".
IsHeading(line) == StartsWith(line, <<"#","#","#"," ">>)

IsCountSummary(line) == StartsWith(line, <<"*","F","o","u","n","d"," ">>)

\* C11: for every query text q, format_results([], q) returns a single line
\* that contains q and holds no group heading and no count summary.
C11_EmptyReportOneLine ==
  \A p \in Procs :
    (Reported(p) /\ visits[p] = <<>>)
    => LET lines == LinesOf(ReportText(p))
       IN /\ Len(lines) = 1
          /\ Contains(QueryText(p), ReportText(p))
          /\ \A i \in 1..Len(lines) : ~IsHeading(lines[i]) /\ ~IsCountSummary(lines[i])

\* The display order of the categories and the names their headings show.
C12_Order == <<"reading", "research", "tools", "events", "other">>

C12_Name ==
  [reading |-> <<"R","e","a","d","i","n","g">>,
   research |-> <<"R","e","s","e","a","r","c","h">>,
   tools |-> <<"T","o","o","l","s">>,
   events |-> <<"E","v","e","n","t","s">>,
   other |-> <<"O","t","h","e","r">>]

\* The heading of the k-th category when it has n records.
C12_Heading(k, n) ==
  <<"#","#","#"," ">> \o C12_Name[C12_Order[k]] \o <<" ", "(">> \o Str(n) \o <<")">>

\* The position in the display order of the category whose heading line is.
C12_CategoryAt(line, visits_p) ==
  {k \in 1..Len(C12_Order) :
     \E n \in 1..Len(visits_p) : line = C12_Heading(k, n)}

\* The records of visits_p that have the k-th category, by the cluster table.
C12_Members(visits_p, k) ==
  {i \in 1..Len(visits_p) : get_domain_cluster_of[visits_p[i].url] = C12_Order[k]}

\* The report of process p after its first line, the title that repeats the
\* query text.
C12_Body(p) ==
  LET title == <<"#","#"," ","C","h","r","o","m","e"," ","H","i","s","t","o","r","y",":"," ">> \o QueryText(p) \o <<"\n">>
  IN SubSeq(ReportText(p), Len(title) + 1, Len(ReportText(p)))

C13_Shown(lines, i) == SubSeq(lines[i - 1], 9, Len(lines[i - 1]))

\* C13: the title shown for a record is its whitespace-stripped title when
\* that has at most 75 characters, and otherwise its first 72 characters
\* followed by "..."; a shown title never has more than 75 characters.
C13_TitleShown ==
  \A p \in Procs :
    (Reported(p) /\ visits[p] # <<>>)
    => LET lines == LinesOf(ReportText(p))
       IN \A n \in 1..Len(visits[p]) :
            \E i \in 2..Len(lines) :
              LET title == Strip(visits[p][n].title)
                  shown == C13_Shown(lines, i)
              IN /\ lines[i] = <<" ", " ">> \o visits[p][n].url
                 /\ StartsWith(lines[i - 1], <<"-", " ">>)
                 /\ Len(shown) <= 75
                 /\ (Len(title) <= 75 => shown = title)
                 /\ (Len(title) > 75
                     => /\ Len(shown) = 75
                        /\ SubSeq(shown, 1, 72) = SubSeq(title, 1, 72)
                        /\ SubSeq(shown, 73, 75) = <<".", ".", ".">>)

\* A report shows a record whose stripped title has more than 75
\* characters and a record whose title has 75 characters only once it is
\* stripped.
C13_Witness ==
  \E p \in Procs :
    /\ Reported(p)
    /\ \E i \in 1..Len(visits[p]) : Len(Strip(visits[p][i].title)) > 75
    /\ \E j \in 1..Len(visits[p]) :
          Len(visits[p][j].title) > 75 /\ Len(Strip(visits[p][j].title)) = 75

\* C14: started without a query argument, the script prints the usage
\* message and exits with a non-zero status; it parses no query, takes no
\* snapshot and queries nothing.
C14_UsageWithoutQuery ==
  \A p \in Procs :
    (mode[p] = "script" /\ argv[p] = <<>>)
    => /\ pc[p] \in {"main", "exit"}
       /\ parsed[p] = EmptyResult
       /\ date_range[p] = NoDateRange
       /\ ret[p] = "none"
       /\ conn[p] = "none"
       /\ snapshot_read[p] = NoFile
       /\ temp.writer # p
       /\ pc[p] = "exit"
          => /\ Len(stdout[p]) >= 1
             /\ StartsWith(stdout[p][1], <<"U","s","a","g","e",":">>)
             /\ exit_code[p] # 0 /\ exit_code[p] # -1

\* The script, started without an argument, has ended.
C14_Witness ==
  \E p \in Procs : mode[p] = "script" /\ argv[p] = <<>> /\ pc[p] = "exit"

\* --------------------------------------- properties of parse_query, continued

\* The three category triggers: the words of each and the tag it appends.
C19_Triggers == <<
  [words |-> {<<"a","r","t","i","c","l","e">>, <<"r","e","a","d","i","n","g">>}, tag |-> "reading"],
  [words |-> {<<"r","e","s","e","a","r","c","h">>, <<"s","c","i","e","n","t","i","f","i","c">>, <<"p","a","p","e","r">>}, tag |-> "research"],
  [words |-> {<<"c","o","d","e">>, <<"g","i","t","h","u","b">>}, tag |-> "research"]
>>

\* The triggers that have a word in the text, whatever its case.
C19_Matching(text) ==
  {g \in 1..Len(C19_Triggers) : \E w \in C19_Triggers[g].words : Contains(w, Lower(text))}

C19_Matching_of == [args \in ArgvPool |-> C19_Matching(join_args(args, 1))]

\* C19: each category trigger that matches appends its tag, in the order of
\* the triggers and without deduplication: a text that matches the research
\* trigger and the code trigger gives 'research' twice, after 'reading' when
\* the reading trigger matches too.
C19_TagsNotDeduplicated ==
  \A p \in Procs :
    Parsed(p) =>
      LET matching == C19_Matching_of[argv[p]]
          clusters == parsed[p].clusters
      IN /\ Len(clusters) = Cardinality(matching)
         /\ \A g \in matching :
               clusters[Cardinality({h \in matching : h <= g})] = C19_Triggers[g].tag
         /\ ({2, 3} \subseteq matching
             => Cardinality({i \in 1..Len(clusters) : clusters[i] = "research"}) = 2)
         /\ (matching = {1, 2, 3} => clusters = <<"reading", "research", "research">>)

\* parse_query has returned for a text that matches all three triggers.
C19_Witness ==
  \E p \in Procs : Parsed(p) /\ C19_Matching_of[argv[p]] = {1, 2, 3}

\* The named-site table in its iteration order.
C20_Sites == <<
  [name |-> <<"r","e","d","d","i","t">>, domain |-> <<"r","e","d","d","i","t",".","c","o","m">>],
  [name |-> <<"h","a","c","k","e","r","n","e","w","s">>, domain |-> <<"n","e","w","s",".","y","c","o","m","b","i","n","a","t","o","r",".","c","o","m">>],
  [name |-> <<"t","w","i","t","t","e","r">>, domain |-> <<"t","w","i","t","t","e","r",".","c","o","m">>],
  [name |-> <<"m","e","d","i","u","m">>, domain |-> <<"m","e","d","i","u","m",".","c","o","m">>],
  [name |-> <<"y","o","u","t","u","b","e">>, domain |-> <<"y","o","u","t","u","b","e",".","c","o","m">>]
>>

\* The entries whose name is in the text, whatever its case.
C20_Matching(text) ==
  {i \in 1..Len(C20_Sites) : Contains(C20_Sites[i].name, Lower(text))}

C20_Matching_of == [args \in ArgvPool |-> C20_Matching(join_args(args, 1))]

\* C20: the domain parse_query returns is that of the last entry, in the
\* order reddit, hackernews, twitter, medium, youtube, whose name is in the
\* text; it stays unset when no name is in the text.
C20_LastSiteWins ==
  \A p \in Procs :
    Parsed(p) =>
      LET matching == C20_Matching_of[argv[p]]
      IN IF matching = {} THEN parsed[p].domain = <<>>
         ELSE parsed[p].domain
              = C20_Sites[CHOOSE i \in matching : \A j \in matching : j <= i].domain

\* parse_query has returned for a text with two site names, the one that
\* comes later in the table standing first in the text.
C20_Witness ==
  \E p \in Procs :
    /\ Parsed(p)
    /\ C20_Matching_of[argv[p]] = {2, 4}
    /\ StartsWith(QueryText(p), C20_Sites[4].name)

\* ------------------------------------------------ properties of send_message

\* The strings listed in allowed_send_groups of the configuration.
C15_Listed ==
  IF config_file.exists /\ config_file.has_allowed_send_groups
  THEN {config_file.allowed_send_groups[i] : i \in 1..Len(config_file.allowed_send_groups)}
  ELSE {}

\* An entity that is a group or a channel.
C15_GroupOrChannel(e) == e.type \in {"Chat", "Channel"}

\* C15: the client's send_message and send_file are called for a group or
\* channel only when the resolved name or the entity id, as a string, is
\* listed in allowed_send_groups; when neither is listed the call returns
\* sent = False with an error and nothing is sent.
C15_GroupSendNeedsWhitelist ==
  /\ \A i \in 1..Len(client_calls) :
        C15_GroupOrChannel(client_calls[i].entity)
        => \/ resolved_name \in C15_Listed
           \/ Str(client_calls[i].entity.id) \in C15_Listed
  /\ (/\ send_pc \in {"send", "done"}
      /\ C15_GroupOrChannel(entity)
      /\ resolved_name \notin C15_Listed
      /\ Str(entity.id) \notin C15_Listed)
     => /\ send_pc = "done"
        /\ send_result.sent = FALSE
        /\ send_result.error \notin {"none", "not returned"}
        /\ client_calls = <<>>

\* send_message has returned for a channel that is not listed, the
\* configuration listing another chat.
C15_Witness ==
  /\ send_pc = "done"
  /\ entity.type = "Channel"
  /\ C15_Listed # {}
  /\ resolved_name \notin C15_Listed
  /\ Str(entity.id) \notin C15_Listed

\* -------------------------------------------------- properties of AuthWizard

\* The step is a call of the named method.
C16_Calls(method) == wizard_steps' = wizard_steps + 1 /\ wizard_result'.call = method

\* C16: sign_in raises AuthError and calls no client unless a send_code call
\* completed before it (client created, phone_code_hash stored) and no
\* disconnect happened since; sign_in_2fa raises AuthError and calls no
\* client when the wizard has no client.
C16_SignInNeedsSentCode ==
  [][/\ (C16_Calls("sign_in") /\ ~code_sent)
        => (wizard_result'.outcome = "AuthError" /\ wizard_calls' = wizard_calls)
     /\ (C16_Calls("sign_in_2fa") /\ wizard._client = NoClient)
        => (wizard_result'.outcome = "AuthError" /\ wizard_calls' = wizard_calls)]_vars

\* --------------------------------------------- fix_markdown_lists, properties

\* The script has written its output.
C17_Fixed == md_pc = "exit" /\ md_exit = 0

\* The lines of the text the script wrote.
C17_Output ==
  LinesOf(md_files[IF Len(md_argv) > 1 THEN md_argv[2] ELSE md_argv[1]].text)

C17_Blank(line) == Strip(line) = <<>>

C17_ListItem(line) == list_indent(line) >= 0

\* C17: in the text the script writes, every list item (bullet or numbered)
\* that follows a line is preceded by a blank line or by another list item:
\* no list item directly follows a non-blank line that is not a list item.
C17_BlankBeforeEveryListItem ==
  C17_Fixed =>
    \A i \in 2..Len(C17_Output) :
      C17_ListItem(C17_Output[i])
        => (C17_Blank(C17_Output[i - 1]) \/ C17_ListItem(C17_Output[i - 1]))

\* What the loop does establish: in the text the script writes, every list
\* item with no indentation is preceded by a blank line or by another list
\* item, and the written text is the text read with nothing but empty lines
\* added.
BlankBeforeUnindentedListItem ==
  C17_Fixed =>
    /\ \A i \in 2..Len(C17_Output) :
         list_indent(C17_Output[i]) = 0
           => (C17_Blank(C17_Output[i - 1]) \/ C17_ListItem(C17_Output[i - 1]))
    /\ LET read == LinesOf(IF Len(md_argv) > 1 THEN md_files[md_argv[1]].text ELSE <<>>)
       IN Len(md_argv) > 1 =>
            \E added \in SUBSET (1..Len(C17_Output)) :
              /\ \A i \in added : C17_Output[i] = <<>>
              /\ Len(C17_Output) = Len(read) + Cardinality(added)
              /\ \A i \in 1..Len(C17_Output) :
                   i \notin added
                     => C17_Output[i] = read[i - Cardinality({j \in added : j < i})]

\* The script wrote a text in which it put an empty line between a
\* paragraph line and an unindented list item.
BlankLineAdded ==
  /\ C17_Fixed
  /\ Len(md_argv) > 1
  /\ Len(C17_Output) > Len(LinesOf(md_files[md_argv[1]].text))
  /\ \E i \in 3..Len(C17_Output) :
       /\ list_indent(C17_Output[i]) = 0
       /\ C17_Output[i - 1] = <<>>
       /\ ~C17_Blank(C17_Output[i - 2])
       /\ ~C17_ListItem(C17_Output[i - 2])

\* ------------------------------------------ microsecond bounds, properties

\* C18: the lower bound is the whole number of microseconds from the epoch to
\* 00:00:00.000000 of the start date, the upper bound the whole number of
\* microseconds from the epoch to 23:59:59.999999 of the end date, and the
\* query returns just the visits whose time lies between those two instants,
\* both included.
C18_ExactMicroseconds ==
  /\ ts_pc \in {"query", "done"} =>
       /\ ts_bounds.microseconds_start = since_epoch(ts_range.start, time_min)
       /\ ts_bounds.microseconds_end = since_epoch(ts_range.end, time_max)
  /\ ts_pc = "done" =>
       ts_hits = {visit_time \in ts_rows :
                    /\ time_le(since_epoch(ts_range.start, time_min), visit_time)
                    /\ time_le(visit_time, since_epoch(ts_range.end, time_max))}

\* ---------------------------------------------------- keywords, properties

\* The 0-based offsets at which sub occurs in s.
Offsets(sub, s) == {at \in 0..(Len(s) - Len(sub)) : OccursAt(sub, s, at)}

\* The text that follows the first 'about' of the lowercased, stripped text,
\* up to the first 'i read' after it or to the end of the string.
C21_FreeText(text) ==
  LET query == Strip(Lower(text))
      abouts == Offsets(<<"a","b","o","u","t">>, query)
      from == Min(abouts) + 5
      rest == Slice(query, from, Len(query))
      reads == Offsets(<<"i"," ","r","e","a","d">>, rest)
  IN IF reads = {} THEN rest ELSE Slice(rest, 0, Min(reads))

\* The whitespace-separated tokens of that text which have three characters
\* or more, in their order; none when the text has no 'about'.
C21_Tokens(text) ==
  IF Offsets(<<"a","b","o","u","t">>, Strip(Lower(text))) = {} THEN <<>>
  ELSE LET tokens == Split(C21_FreeText(text))
           long == {i \in 1..Len(tokens) : Len(tokens[i]) >= 3}
       IN [n \in 1..Cardinality(long) |->
             tokens[CHOOSE i \in long : Cardinality({j \in long : j <= i}) = n]]

C21_Tokens_of == [args \in ArgvPool |-> C21_Tokens(join_args(args, 1))]

\* C21: the keyword list parse_query returns is the ordered list of the
\* whitespace-separated tokens of three characters or more of the text that
\* follows 'about', up to 'i read' or the end of the string; it is empty when
\* the text has no 'about'.
C21_KeywordsAreTokensAfterAbout ==
  \A p \in Procs :
    Parsed(p) => parsed[p].keywords = C21_Tokens_of[argv[p]]

\* ------------------------------------------------ filter stage, properties

\* The record satisfies each filter that is set.
C22_Satisfies(record, filter) ==
  /\ (filter.domain # <<>> => Contains(filter.domain, record.url))
  /\ (filter.clusters # <<>>
        => \E c \in 1..Len(filter.clusters) : filter.clusters[c] = record.cluster)
  /\ (filter.keywords # <<>>
        => \E k \in 1..Len(filter.keywords) :
             Contains(filter.keywords[k], Lower(record.url \o <<" ">> \o record.title)))

\* C22: every record the filter stage returns satisfies every active filter:
\* a set domain is a substring of its url, a non-empty category list holds
\* its category, and of a non-empty keyword list at least one keyword is a
\* substring of the lowercased url + ' ' + title.
C22_RecordsSatisfyActiveFilters ==
  \A p \in Procs : \A k \in 1..Len(visits[p]) :
    C22_Satisfies(visits[p][k], filters[p])

\* The filter stage ran with the three filters set, returned a record, and
\* left out a row that is not excluded and fails one of the filters.
C22_Witness ==
  \E p \in Procs :
    /\ Filtered(p)
    /\ filters[p].domain # <<>>
    /\ filters[p].clusters # <<>>
    /\ filters[p].keywords # <<>>
    /\ visits[p] # <<>>
    /\ \E i \in 1..Len(results[p]) :
         /\ should_include_of[results[p][i].url]
         /\ ~C22_Satisfies(visit_record(results[p][i], tz), filters[p])

\* ------------------------------------------------------ category, properties

\* The order of the rules of the category table.
C23_Order == <<"research", "reading", "tools", "events">>

\* The tag of the first rule, in that order, one of whose domain substrings
\* is a substring of the url's host; 'other' when no rule has one.
C23_Category(url) ==
  LET host == urlparse_netloc(url)
      matching == {i \in 1..Len(DOMAIN_CLUSTERS) :
                     \E site \in DOMAIN_CLUSTERS[i].sites : Contains(site, host)}
  IN IF matching = {} THEN "other" ELSE C23_Order[Min(matching)]

C23_Category_of == [url \in UrlPool |-> C23_Category(url)]

\* C23: get_domain_cluster(url) is the tag of the first rule, in the order
\* research, reading, tools, events, that has a domain substring in the url's
\* host, and 'other' when there is none; every record returned carries this
\* value as its category, and it is the value the category filter tested.
C23_CategoryIsFirstMatchingRule ==
  /\ \A i \in 1..Len(DOMAIN_CLUSTERS) : DOMAIN_CLUSTERS[i].name = C23_Order[i]
  /\ \A p \in Procs : \A k \in 1..Len(visits[p]) :
       /\ get_domain_cluster_of[visits[p][k].url] = C23_Category_of[visits[p][k].url]
       /\ visits[p][k].cluster = C23_Category_of[visits[p][k].url]
       /\ (filters[p].clusters # <<>>
             => C23_Category_of[visits[p][k].url] \in Range(filters[p].clusters))

\* --------------------------------------------------- output order, properties

C25_Host(url) ==
  LET host == urlparse_netloc(url)
  IN IF StartsWith(host, <<"w","w","w",".">>) THEN Slice(host, 4, Len(host)) ELSE host

\* The conditions under which the exclusion check drops an event.
C25_Excluded(url) ==
  \/ \E entry \in BLOCKLIST : Contains(entry, C25_Host(url))
  \/ \E entry \in BLOCKLIST : Contains(entry, url)
  \/ StartsWith(url, <<"c","h","r","o","m","e",":","/","/">>)
  \/ StartsWith(url, <<"a","b","o","u","t",":">>)
  \/ StartsWith(url, <<"d","a","t","a",":">>)

C25_Excluded_of == [url \in UrlPool |-> C25_Excluded(url)]

\* C25: the exclusion check drops an event if and only if the host with only
\* a leading 'www.' stripped contains an exclusion-list entry, or the url
\* contains one, or the url starts with chrome://, about: or data:.  An event
\* that meets one of the conditions gives no record; with no filter set, an
\* event that meets none of them has its url among the records.
C25_DroppedIffExcluded ==
  \A p \in Procs :
    Filtered(p) =>
      \A i \in 1..Len(results[p]) :
        LET url == results[p][i].url
            kept == \E k \in 1..Len(visits[p]) : visits[p][k].url = url
        IN /\ C25_Excluded_of[url] => ~kept
           /\ (~C25_Excluded_of[url] /\ filters[p] = NoFilters) => kept

\* ------------------------------------------------- count summary, properties

\* The count a group heading shows: n for a line that ends with " (n)".
C26_Shown(line) ==
  LET counts == {n \in 0..9 : Len(line) >= 4
                              /\ SubSeq(line, Len(line) - 3, Len(line)) = <<" ", "(">> \o Str(n) \o <<")">>}
  IN IF counts = {} THEN 0 ELSE CHOOSE n \in counts : TRUE

\* The sum of the counts shown in the headings among lines i, i+1, ...
RECURSIVE C26_SumOfHeadings(_, _)
C26_SumOfHeadings(lines, i) ==
  IF i > Len(lines) THEN 0
  ELSE (IF IsHeading(lines[i]) THEN C26_Shown(lines[i]) ELSE 0)
       + C26_SumOfHeadings(lines, i + 1)

C26_Summary(n) == <<"*","F","o","u","n","d"," ">> \o Str(n) \o <<" ","i","t","e","m","s","*">>

\* C26: for a non-empty list of records, the second line of the report is
\* the count summary, the first being the title; the count it shows is the
\* number of records given to format_results and the sum of the counts shown
\* in the group headings.
C26_SummaryIsSecondLine ==
  \A p \in Procs :
    (Reported(p) /\ visits[p] # <<>>)
    => LET lines == LinesOf(ReportText(p))
       IN /\ Len(lines) >= 2
          /\ StartsWith(lines[1], <<"#","#"," ","C","h","r","o","m","e"," ","H","i","s","t","o","r","y",":">>)
          /\ lines[2] = C26_Summary(Len(visits[p]))
          /\ C26_SumOfHeadings(lines, 1) = Len(visits[p])

\* What holds of every report of a non-empty list: the count summary comes
\* directly after the title, which is the query text as it was given, and
\* shows the number of records, the sum of the counts of the group headings
\* below it.
SummaryFollowsTitle ==
  \A p \in Procs :
    (Reported(p) /\ visits[p] # <<>>)
    => LET lines == LinesOf(C12_Body(p))
       IN /\ lines[1] = C26_Summary(Len(visits[p]))
          /\ C26_SumOfHeadings(lines, 2) = Len(visits[p])

\* ------------------------------------------- saving the configuration, properties

\* The step is a call of the wizard that ends as outcome says.
C27_Ends(outcome) == wizard_steps' = wizard_steps + 1 /\ wizard_result'.outcome = outcome

\* C27: a step in which the configuration becomes saved is a sign_in or a
\* sign_in_2fa that returns, in which the client's sign-in was called; a
\* sign_in or sign_in_2fa that ends with AuthError or another exception, and
\* every send_code, leaves the configuration as saved or unsaved as it was.
C27_SavedOnlyAfterSignIn ==
  [][/\ (wizard'.config.saved /\ ~wizard.config.saved)
          => /\ wizard_result'.call \in {"sign_in", "sign_in_2fa"}
             /\ C27_Ends("returned")
             /\ Len(wizard_calls') = Len(wizard_calls) + 1
             /\ wizard_calls'[Len(wizard_calls')].method \in {"sign_in", "sign_in_password"}
     /\ (C27_Ends("AuthError") \/ C27_Ends("error"))
          => wizard'.config.saved = wizard.config.saved
     /\ wizard_result'.call = "send_code" /\ wizard_steps' = wizard_steps + 1
          => wizard'.config.saved = wizard.config.saved]_vars

\* sign_in_2fa has returned and saved the configuration, after a sign_in
\* whose client call did not return a user.
C27_Witness ==
  /\ wizard.config.saved
  /\ wizard_result = [call |-> "sign_in_2fa", outcome |-> "returned"]
  /\ \E i \in 1..Len(wizard_calls) : wizard_calls[i].method = "sign_in"

\* ------------------------------------------------ search_messages, properties

\* C28: search_messages returns at most limit messages (none when limit is
\* negative), with a chat_id and without one.
C28_AtMostLimit ==
  sr_pc = "returned"
    => Len(sr_messages) <= (IF sr_limit > 0 THEN sr_limit ELSE 0)

\* What holds for every limit: with a chat_id at most limit messages are
\* returned, and without one at most limit when limit is 1 or more, no
\* dialog giving more than limit // 20 + 1 of them.
AtMostLimitWhenPositive ==
  /\ (sr_pc = "returned" /\ (sr_chat_id # 0 \/ sr_limit # 0))
       => Len(sr_messages) <= (IF sr_limit > 0 THEN sr_limit ELSE 0)
  /\ \A d \in 1..Len(sr_dialogs) :
       Cardinality({i \in 1..Len(sr_messages) : sr_messages[i].chat = d})
         <= (IF sr_limit \div 20 + 1 > 0 THEN sr_limit \div 20 + 1 ELSE 0)

\* -------------------------------------- fix_markdown_lists, algebraic properties

\* The text the script read, when it wrote to another file.
C29_Read == md_files[md_argv[1]].text

C29_Written == md_files[IF Len(md_argv) > 1 THEN md_argv[2] ELSE md_argv[1]].text

\* The lines of a text that are not empty, in their order.
RECURSIVE C29_NonEmpty(_, _)
C29_NonEmpty(lines, i) ==
  IF i > Len(lines) THEN <<>>
  ELSE (IF lines[i] = <<>> THEN <<>> ELSE <<lines[i]>>) \o C29_NonEmpty(lines, i + 1)

\* C29: fix_markdown_lists is idempotent and only inserts: applied to the
\* text it returned it returns that text again; the text it returned is the
\* text it was given with empty lines put in, so that taking the added lines
\* out gives the lines of the input, unchanged and in their order.
C29_IdempotentAndOnlyInserts ==
  C17_Fixed =>
    /\ fix_markdown_lists(C29_Written) = C29_Written
    /\ Len(md_argv) > 1 =>
         LET read == LinesOf(C29_Read)
             written == LinesOf(C29_Written)
         IN /\ \E added \in SUBSET (1..Len(written)) :
                 /\ \A i \in added : written[i] = <<>>
                 /\ Len(written) = Len(read) + Cardinality(added)
                 /\ \A i \in 1..Len(written) :
                      i \notin added
                        => written[i] = read[i - Cardinality({j \in added : j < i})]
            /\ C29_NonEmpty(written, 1) = C29_NonEmpty(read, 1)

\* The script wrote, to another file, a text with one line more than the
\* text it read.
C29_Witness ==
  /\ C17_Fixed
  /\ Len(md_argv) > 1
  /\ Len(LinesOf(C29_Written)) = Len(LinesOf(C29_Read)) + 1

\* --------------------------------------------------- local dates, properties

\* The calendar date of a time in ticks.
C30_Date(time) == time \div TicksPerDay

\* C30: every record returned for the range [start, end] carries a local
\* time whose calendar date lies in [start, end], whatever the offset of the
\* local zone.
C30_LocalDateInRange ==
  \A p \in Procs :
    Filtered(p) =>
      \A k \in 1..Len(visits[p]) :
        /\ date_range[p].start <= C30_Date(visits[p][k].time)
        /\ C30_Date(visits[p][k].time) <= date_range[p].end

\* What holds whatever the offset: the instant of every record returned,
\* taken as a UTC date, lies in [start, end].
UtcDateInRange ==
  \A p \in Procs :
    Filtered(p) =>
      \A k \in 1..Len(visits[p]) :
        /\ date_range[p].start <= C30_Date(visits[p][k].time - tz)
        /\ C30_Date(visits[p][k].time - tz) <= date_range[p].end

====
